---- MODULE Spec2Model ----
(***************************************************************************)
(* Model of the storage orchestrator and of the context manager of         *)
(* mandala_lite (src/mandala_lite/ui/main.py, funcs.py, context.py).       *)
(*                                                                         *)
(* A uid is the digest of a canonical encoding.  The digest is taken to be *)
(* collision free and is represented by the encoding itself:               *)
(*   payload p            -> <<p>>                                         *)
(*   call                 -> <<hashable_input_uids, versioned name>>       *)
(*   output i of a call   -> <<content uid, call uid, i>>                  *)
(***************************************************************************)
EXTENDS Integers, Sequences, FiniteSets, TLC

VARIABLES
    Config,     \* the process-wide configuration flags
    storage,    \* the Storage object: caches, dirty sets, relational tables
    known,      \* ValueRefs and Calls the program holds (returned by call_run)
    ret,        \* what the last operation returned or raised
    runs,       \* per (func_op, inputs): what the first call_run returned
    execs,      \* per call uid: how often the user function was executed
    ncalls,     \* number of call_run invocations so far
    current,    \* GlobalContext.current
    ctx,        \* the Context objects run, query and batch
    entered,    \* the with-statements being executed, innermost last
    nctx,       \* number of Context.__enter__ invocations so far
    nfcalls,    \* number of FuncInterface.__call__ invocations so far
    prov_df,    \* the provenance table the RefFunctors read
    rf,         \* the RefFunctor the program holds
    self_rf,    \* the RefFunctor the last method was called on, after the call
    nbacks,     \* number of RefFunctor method invocations so far
    sync        \* where this process is inside sync_to_remote, and its bundle

svars == <<storage, known, ret, runs, execs, ncalls>>

svars_but_ret == <<storage, known, runs, execs, ncalls>>

cvars == <<current, ctx, entered, nctx, nfcalls>>

rvars == <<prov_df, rf, self_rf, nbacks>>

env == <<Config, sync>>

vars == <<env, svars, cvars, rvars>>

----------------------------------------------------------------------------
(* Bounds *)

MaxCalls == 3

MaxStoreCalls == 2

MaxEnters == 2

MaxFCalls == 2

MaxLog == 2

MaxSyncCalls == 1

MaxRef == 2

MaxRows == 2

MaxBacks == 2

Payloads == {0, 1}

----------------------------------------------------------------------------
(* core.utils.Hashing, core.model.wrap, ui.utils.wrap_inputs/wrap_outputs *)

get_content_hash(enc) == enc

IsRef(v) == "uid" \in DOMAIN v

Raw(p) == [raw |-> p]

wrap(v) == IF IsRef(v) THEN v ELSE [uid |-> get_content_hash(<<v.raw>>), obj |-> v.raw]

wrap_inputs(inputs) == [k \in DOMAIN inputs |-> wrap(inputs[k])]

\* wrap_outputs that gives an output the hash of its payload as uid
wrap_outputs_content_uid(outputs, call_uid) ==
    [i \in 1..Len(outputs) |->
        [uid |-> get_content_hash(<<outputs[i]>>), obj |-> outputs[i]]]

wrap_outputs(outputs, call_uid) ==
    [i \in 1..Len(outputs) |->
        [uid |-> get_content_hash(<<get_content_hash(<<outputs[i]>>), call_uid, i - 1>>),
         obj |-> outputs[i]]]

----------------------------------------------------------------------------
(* Signatures and ops.  The three FuncOps are the same op "sum" seen with  *)
(* three states of its signature: as first registered, after the UI rename *)
(* x -> y, and after input d with default 0 was added.                     *)

FuncOps == {"sum", "sum_renamed", "sum_d"}

Sig(f) ==
    CASE f = "sum" ->
           [versioned_internal_name |-> "i_sum_0", versioned_ui_name |-> "sum_0",
            ui_to_internal_input_map |-> [x |-> "i_x"],
            new_input_defaults_uids |-> << >>,
            n_outputs |-> 1]
      [] f = "sum_renamed" ->
           [versioned_internal_name |-> "i_sum_0", versioned_ui_name |-> "sum_0",
            ui_to_internal_input_map |-> [y |-> "i_x"],
            new_input_defaults_uids |-> << >>,
            n_outputs |-> 1]
      [] f = "sum_d" ->
           [versioned_internal_name |-> "i_sum_0", versioned_ui_name |-> "sum_0",
            ui_to_internal_input_map |-> [x |-> "i_x", d |-> "i_d"],
            new_input_defaults_uids |-> [i_d |-> get_content_hash(<<0>>)],
            n_outputs |-> 1]

RECURSIVE SumObjs(_, _)
SumObjs(raw_inputs, names) ==
    IF names = {} THEN 0
    ELSE LET k == CHOOSE n \in names : TRUE
         IN  raw_inputs[k] + SumObjs(raw_inputs, names \ {k})

\* FuncOp.compute: the user function, here the sum of the inputs modulo 2
compute(f, raw_inputs) == << SumObjs(raw_inputs, DOMAIN raw_inputs) % 2 >>

----------------------------------------------------------------------------
(* storages.kv.InMemoryStorage: data and dirty_entries.  A cache is a      *)
(* record [data |-> function uid -> entry, dirty |-> set of uids].         *)

EmptyFcn == << >>

kv_empty == [data |-> EmptyFcn, dirty |-> {}]

kv_exists(kv, k) == k \in DOMAIN kv.data

kv_set(kv, k, v) ==
    [data  |-> [x \in DOMAIN kv.data \cup {k} |-> IF x = k THEN v ELSE kv.data[x]],
     dirty |-> kv.dirty \cup {k}]

kv_delete(kv, k) ==
    [kv EXCEPT !.data = [x \in DOMAIN kv.data \ {k} |-> kv.data[x]]]

RECURSIVE kv_sets(_, _, _)
kv_sets(kv, keys, val) ==
    IF keys = {} THEN kv
    ELSE LET k == CHOOSE x \in keys : TRUE
         IN  kv_sets(kv_set(kv, k, val[k]), keys \ {k}, val)

RECURSIVE kv_deletes(_, _)
kv_deletes(kv, keys) ==
    IF keys = {} THEN kv
    ELSE LET k == CHOOSE x \in keys : TRUE
         IN  kv_deletes(kv_delete(kv, k), keys \ {k})

----------------------------------------------------------------------------
(* storages.rels.RelAdapter over the relational store.  Tables:            *)
(*   vrefs      uid -> ValueRef          (the value table)                 *)
(*   memo       call uid -> call row     (the memoization tables)          *)
(*   provenance set of rows (call_uid, vref_uid, direction, name, op)      *)
(*   event_log  set of rows (table, uid), table a UI name                  *)
(* Each adapter operation called without a connection is one transaction.  *)

Upsert(table, rows) ==
    [x \in DOMAIN table \cup DOMAIN rows |-> IF x \in DOMAIN rows THEN rows[x] ELSE table[x]]

rel_call_exists(st, call_uid) == call_uid \in DOMAIN st.memo

VrefTable == "__vrefs__"

\* the objs not yet in the value table are written and logged
rel_obj_sets(st, new_objs) ==
    LET new_uids == DOMAIN new_objs \ DOMAIN st.vrefs
    IN  [st EXCEPT !.vrefs = Upsert(st.vrefs, [u \in new_uids |-> new_objs[u]]),
                   !.event_log = st.event_log \cup
                                 { [table |-> VrefTable, uid |-> u] : u \in new_uids }]

CallRow(call) ==
    [uid     |-> call.uid,
     inputs  |-> [k \in DOMAIN call.inputs |-> call.inputs[k].uid],
     outputs |-> [i \in DOMAIN call.outputs |-> call.outputs[i].uid],
     func_op |-> call.func_op]

OutputName(i) == IF i = 1 THEN "output_0" ELSE "output_1"

ProvRows(call) ==
    { [call_uid |-> call.uid, vref_uid |-> call.inputs[k].uid, direction |-> "input",
       name |-> Sig(call.func_op).ui_to_internal_input_map[k],
       op |-> Sig(call.func_op).versioned_internal_name] : k \in DOMAIN call.inputs }
    \cup
    { [call_uid |-> call.uid, vref_uid |-> call.outputs[i].uid, direction |-> "output",
       name |-> OutputName(i), op |-> Sig(call.func_op).versioned_internal_name]
       : i \in DOMAIN call.outputs }

\* new_calls: a function call uid -> Call
rel_upsert_calls(st, new_calls) ==
    [st EXCEPT
       !.memo = Upsert(st.memo, [u \in DOMAIN new_calls |-> CallRow(new_calls[u])]),
       !.provenance = st.provenance \cup UNION { ProvRows(new_calls[u]) : u \in DOMAIN new_calls },
       !.event_log = st.event_log \cup
                     { [table |-> Sig(new_calls[u].func_op).versioned_ui_name, uid |-> u]
                       : u \in DOMAIN new_calls }]

----------------------------------------------------------------------------
(* Storage (src/mandala_lite/ui/main.py).  Every operation is an operator  *)
(* from the Storage object st to the Storage object after it, with what it *)
(* returned and whether it raised.                                         *)

StorageInit ==
    [call_cache |-> kv_empty, obj_cache |-> kv_empty,
     vrefs |-> EmptyFcn, memo |-> EmptyFcn, provenance |-> {}, event_log |-> {},
     root |-> "None", remote_log |-> << >>, last_timestamp |-> 0]

\* a call_exists that looks in the call cache alone
call_exists_cache_only(st, call_uid) == kv_exists(st.call_cache, call_uid)

call_exists(st, call_uid) ==
    kv_exists(st.call_cache, call_uid) \/ rel_call_exists(st, call_uid)

obj_get(st, obj_uid) ==
    IF kv_exists(st.obj_cache, obj_uid) THEN st.obj_cache.data[obj_uid]
    ELSE st.vrefs[obj_uid]

call_get(st, call_uid) ==
    IF kv_exists(st.call_cache, call_uid) THEN st.call_cache.data[call_uid]
    ELSE LET lazy_call == st.memo[call_uid]
         IN  [uid     |-> lazy_call.uid,
              inputs  |-> [k \in DOMAIN lazy_call.inputs |-> obj_get(st, lazy_call.inputs[k])],
              outputs |-> [i \in DOMAIN lazy_call.outputs |-> obj_get(st, lazy_call.outputs[i])],
              func_op |-> lazy_call.func_op]

call_set(st, call_uid, call) ==
    [st EXCEPT !.call_cache = kv_set(st.call_cache, call_uid, call)]

obj_set(st, obj_uid, vref) ==
    [st EXCEPT !.obj_cache = kv_set(st.obj_cache, obj_uid, vref)]

preload_objs(st, keys) ==
    LET keys_not_in_cache == { key \in keys : ~kv_exists(st.obj_cache, key) }
        rows == keys_not_in_cache \cap DOMAIN st.vrefs
    IN  [st EXCEPT !.obj_cache = kv_sets(st.obj_cache, rows, st.vrefs)]

evict_caches(st) ==
    [st EXCEPT !.call_cache = kv_deletes(st.call_cache, DOMAIN st.call_cache.data),
               !.obj_cache  = kv_deletes(st.obj_cache, DOMAIN st.obj_cache.data)]

CallRefs(call) ==
    { call.inputs[k] : k \in DOMAIN call.inputs } \cup { call.outputs[i] : i \in DOMAIN call.outputs }

NoCalls == [is_none |-> TRUE, list |-> {}]

CallsList(L) == [is_none |-> FALSE, list |-> L]

\* a commit that leaves out the inputs of the calls of an explicit list
commit_new_objs_outputs_only(st, calls) ==
    IF calls.is_none
    THEN [key \in st.obj_cache.dirty |-> st.obj_cache.data[key]]
    ELSE LET refs == UNION { { call.outputs[i] : i \in DOMAIN call.outputs } : call \in calls.list }
         IN  [u \in { v.uid : v \in refs } |-> CHOOSE v \in refs : v.uid = u]

\* the objs that commit writes: uid -> ValueRef
commit_new_objs(st, calls) ==
    IF calls.is_none
    THEN [key \in st.obj_cache.dirty |-> st.obj_cache.data[key]]
    ELSE LET refs == UNION { CallRefs(call) : call \in calls.list }
         IN  [u \in { v.uid : v \in refs } |-> CHOOSE v \in refs : v.uid = u]

\* the calls that commit writes: call uid -> Call
commit_new_calls(st, calls) ==
    IF calls.is_none
    THEN [key \in st.call_cache.dirty |-> st.call_cache.data[key]]
    ELSE [u \in { call.uid : call \in calls.list } |-> CHOOSE call \in calls.list : call.uid = u]

\* a commit that clears the dirty sets before it writes
commit_clears_first(st, calls, fail) ==
    IF calls.is_none /\ ~(st.obj_cache.dirty \subseteq DOMAIN st.obj_cache.data
                          /\ st.call_cache.dirty \subseteq DOMAIN st.call_cache.data)
    THEN [st |-> st, exc |-> "KeyError"]
    ELSE
    LET new_objs  == commit_new_objs(st, calls)
        new_calls == commit_new_calls(st, calls)
        st0 == [st EXCEPT !.obj_cache.dirty = {}, !.call_cache.dirty = {}]
        st1 == rel_obj_sets(st0, new_objs)
        st2 == rel_upsert_calls(st1, new_calls)
        st3 == IF Config.evict_on_commit THEN evict_caches(st2) ELSE st2
    IN  CASE fail = "obj_sets"     -> [st |-> st0, exc |-> "obj_sets"]
          [] fail = "upsert_calls" -> [st |-> st1, exc |-> "upsert_calls"]
          [] OTHER                 -> [st |-> st3, exc |-> "none"]

\* fail: the adapter operation that raises inside this commit, or "none"
commit(st, calls, fail) ==
    IF calls.is_none /\ ~(st.obj_cache.dirty \subseteq DOMAIN st.obj_cache.data
                          /\ st.call_cache.dirty \subseteq DOMAIN st.call_cache.data)
    THEN [st |-> st, exc |-> "KeyError"]
    ELSE
    LET new_objs  == commit_new_objs(st, calls)
        new_calls == commit_new_calls(st, calls)
        st1 == rel_obj_sets(st, new_objs)
        st2 == rel_upsert_calls(st1, new_calls)
        st3 == IF Config.evict_on_commit THEN evict_caches(st2) ELSE st2
        st4 == [st3 EXCEPT !.obj_cache.dirty = {}, !.call_cache.dirty = {}]
    IN  CASE fail = "obj_sets"     -> [st |-> st,  exc |-> "obj_sets"]
          [] fail = "upsert_calls" -> [st |-> st1, exc |-> "upsert_calls"]
          [] OTHER                 -> [st |-> st4, exc |-> "none"]

\* hashable_input_uids that keeps the inputs bound to their recorded default
hashable_input_uids_keep_defaults(f, wrapped_inputs) ==
    LET map == Sig(f).ui_to_internal_input_map
    IN  [internal_k \in { map[k] : k \in DOMAIN wrapped_inputs } |->
            wrapped_inputs[CHOOSE k \in DOMAIN wrapped_inputs : map[k] = internal_k].uid]

\* hashable_input_uids keyed by the UI names
hashable_input_uids_ui_names(f, wrapped_inputs) ==
    LET map  == Sig(f).ui_to_internal_input_map
        dflt == Sig(f).new_input_defaults_uids
        kept == { k \in DOMAIN wrapped_inputs :
                    ~(map[k] \in DOMAIN dflt /\ dflt[map[k]] = wrapped_inputs[k].uid) }
    IN  [k \in kept |-> wrapped_inputs[k].uid]

hashable_input_uids(f, wrapped_inputs) ==
    LET map  == Sig(f).ui_to_internal_input_map
        dflt == Sig(f).new_input_defaults_uids
        kept == { k \in DOMAIN wrapped_inputs :
                    ~(map[k] \in DOMAIN dflt /\ dflt[map[k]] = wrapped_inputs[k].uid) }
    IN  [internal_k \in { map[k] : k \in kept } |->
            wrapped_inputs[CHOOSE k \in kept : map[k] = internal_k].uid]

call_uid_of(f, wrapped_inputs) ==
    get_content_hash(<<hashable_input_uids(f, wrapped_inputs), Sig(f).versioned_internal_name>>)

RECURSIVE obj_set_all(_, _)
obj_set_all(st, refs) ==
    IF refs = {} THEN st
    ELSE LET v == CHOOSE x \in refs : TRUE
         IN  obj_set_all(obj_set(st, v.uid, v), refs \ {v})

call_run(st, f, inputs) ==
    LET wrapped_inputs == wrap_inputs(inputs)
        call_uid == call_uid_of(f, wrapped_inputs)
    IN  IF call_exists(st, call_uid)
        THEN LET call == call_get(st, call_uid)
                 st1  == preload_objs(st, { call.outputs[i].uid : i \in DOMAIN call.outputs })
             IN  [st |-> st1,
                  outputs |-> [i \in DOMAIN call.outputs |-> obj_get(st1, call.outputs[i].uid)],
                  call |-> call, executed |-> FALSE]
        ELSE LET raw_inputs == [k \in DOMAIN wrapped_inputs |-> wrapped_inputs[k].obj]
                 outputs == compute(f, raw_inputs)
                 wrapped_outputs == wrap_outputs(outputs, call_uid)
                 call == [uid |-> call_uid, inputs |-> wrapped_inputs,
                          outputs |-> wrapped_outputs, func_op |-> f]
                 st1 == call_set(st, call_uid, call)
             IN  [st |-> obj_set_all(st1, CallRefs(call)),
                  outputs |-> wrapped_outputs, call |-> call, executed |-> TRUE]

----------------------------------------------------------------------------
(* The Storage API called directly by the program *)

\* a call_run that stores the call and its inputs before it computes
call_run_sets_first(st, f, inputs) ==
    LET wrapped_inputs == wrap_inputs(inputs)
        call_uid == call_uid_of(f, wrapped_inputs)
    IN  IF call_exists(st, call_uid)
        THEN [st |-> call_run(st, f, inputs).st, uid |-> call_uid, exc |-> "none"]
        ELSE LET call == [uid |-> call_uid, inputs |-> wrapped_inputs,
                          outputs |-> << >>, func_op |-> f]
             IN  [st |-> obj_set_all(call_set(st, call_uid, call), CallRefs(call)),
                  uid |-> call_uid, exc |-> "compute"]

\* Storage.call_run with a user function that raises: func_op.compute is
\* reached on a miss only, before call_set and obj_set
call_run_raises(st, f, inputs) ==
    LET wrapped_inputs == wrap_inputs(inputs)
        call_uid == call_uid_of(f, wrapped_inputs)
    IN  IF call_exists(st, call_uid)
        THEN [st |-> call_run(st, f, inputs).st, uid |-> call_uid, exc |-> "none"]
        ELSE [st |-> st, uid |-> call_uid, exc |-> "compute"]

InputVals == { Raw(p) : p \in Payloads } \cup known.refs

Hist == [known |-> known, runs |-> runs, execs |-> execs, ncalls |-> ncalls]

\* bookkeeping of one call_run invocation with result r
Rec(h, f, inputs, r) ==
    LET key  == <<f, inputs>>
        outs == [i \in DOMAIN r.outputs |-> r.outputs[i].uid]
    IN  [known  |-> [refs  |-> h.known.refs \cup { r.outputs[i] : i \in DOMAIN r.outputs },
                     calls |-> h.known.calls \cup { r.call }],
         runs   |-> IF key \in DOMAIN h.runs THEN h.runs
                    ELSE [k \in DOMAIN h.runs \cup {key} |->
                            IF k = key THEN [uid |-> r.call.uid, outs |-> outs] ELSE h.runs[k]],
         execs  |-> IF r.executed
                    THEN [u \in DOMAIN h.execs \cup {r.call.uid} |->
                            IF u = r.call.uid
                            THEN (IF u \in DOMAIN h.execs THEN h.execs[u] + 1 ELSE 1)
                            ELSE h.execs[u]]
                    ELSE h.execs,
         ncalls |-> h.ncalls + 1]

SetHist(h) ==
    /\ known' = h.known
    /\ runs' = h.runs
    /\ execs' = h.execs
    /\ ncalls' = h.ncalls

RetCallRun(f, inputs, r) ==
    [op |-> "call_run", key |-> <<f, inputs>>, again |-> <<f, inputs>> \in DOMAIN runs,
     uid |-> r.call.uid, outs |-> [i \in DOMAIN r.outputs |-> r.outputs[i].uid],
     executed |-> r.executed]

CallRun(f, inputs) ==
    /\ LET r == call_run(storage, f, inputs)
       IN  /\ storage' = r.st
           /\ SetHist(Rec(Hist, f, inputs, r))
           /\ ret' = RetCallRun(f, inputs, r)
    /\ UNCHANGED <<rvars, env, cvars>>

Commit(fail) ==
    /\ LET r == commit(storage, NoCalls, fail)
       IN  /\ storage' = r.st
           /\ ret' = [op |-> "commit", exc |-> r.exc]
    /\ UNCHANGED <<rvars, env, known, runs, execs, ncalls, cvars>>

CommitCalls(L, fail) ==
    /\ LET r == commit(storage, CallsList(L), fail)
       IN  /\ storage' = r.st
           /\ ret' = [op |-> "commit_calls", exc |-> r.exc]
    /\ UNCHANGED <<rvars, env, known, runs, execs, ncalls, cvars>>

EvictCaches ==
    /\ storage' = evict_caches(storage)
    /\ ret' = [op |-> "evict_caches"]
    /\ UNCHANGED <<rvars, env, known, runs, execs, ncalls, cvars>>

PreloadObjs(keys) ==
    /\ storage' = preload_objs(storage, keys)
    /\ ret' = [op |-> "preload_objs"]
    /\ UNCHANGED <<rvars, env, known, runs, execs, ncalls, cvars>>

CommitFails == {"none", "obj_sets", "upsert_calls"}

\* lists of calls with pairwise different uids
CallLists ==
    { L \in SUBSET known.calls :
        Cardinality(L) <= 2 /\ \A c1, c2 \in L : c1.uid = c2.uid => c1 = c2 }

Modes == {"run", "query", "batch"}

Ctxs == {"run", "query", "batch"}

CtxInit ==
    [c \in Ctxs |-> [storage |-> "None", mode |-> c, lazy |-> FALSE,
                     updates |-> EmptyFcn, updates_stack |-> << >>, call_structs |-> << >>]]

\* the state after the program constructed the Storage st0
InitVars(st0) ==
    /\ Config \in [autocommit : BOOLEAN, evict_on_commit : BOOLEAN]
    /\ storage = st0
    /\ known = [refs |-> {}, calls |-> {}]
    /\ ret = [op |-> "init"]
    /\ runs = EmptyFcn
    /\ execs = EmptyFcn
    /\ ncalls = 0
    /\ current = "None"
    /\ ctx = CtxInit
    /\ entered = << >>
    /\ nctx = 0
    /\ nfcalls = 0
    /\ sync = [at |-> "idle"]

\* no RefFunctor has been made
InitFrom(st0) ==
    /\ InitVars(st0)
    /\ prov_df = EmptyFcn
    /\ rf = [vnames |-> << >>, node |-> EmptyFcn, refs |-> << >>, call_nodes |-> EmptyFcn,
             gen |-> 0]
    /\ self_rf = rf
    /\ nbacks = 0

Init == InitFrom(StorageInit)

\* the Storage API alone does not read Config.autocommit
InitStorage == Init /\ Config.autocommit

RawVals == { Raw(p) : p \in Payloads }

\* the values the program passes for UI input k of f: the first input of the
\* op as first registered, and the added input d, also take earlier outputs
ArgVals(f, k) == IF f = "sum" \/ k = "d" THEN InputVals ELSE RawVals

ArgSets(f) ==
    { inputs \in [DOMAIN Sig(f).ui_to_internal_input_map -> InputVals] :
        \A k \in DOMAIN inputs : inputs[k] \in ArgVals(f, k) }

DoCallRun ==
    /\ ncalls < MaxCalls
    /\ \E f \in FuncOps : \E inputs \in ArgSets(f) : CallRun(f, inputs)

DoCallRunSum ==
    /\ ncalls < MaxStoreCalls
    /\ \E inputs \in ArgSets("sum") : CallRun("sum", inputs)

DoCommit == \E fail \in CommitFails : Commit(fail)

DoCommitCalls == \E L \in CallLists : \E fail \in CommitFails : CommitCalls(L, fail)

DoPreloadObjs == \E v \in known.refs : PreloadObjs({v.uid})

CallRunRaises(f, inputs) ==
    /\ LET r == call_run_raises(storage, f, inputs)
       IN  /\ r.exc = "compute"
           /\ storage' = r.st
           /\ ncalls' = ncalls + 1
           /\ ret' = [op |-> "call_run", key |-> <<f, inputs>>, uid |-> r.uid, exc |-> r.exc]
    /\ UNCHANGED <<rvars, env, known, runs, execs, cvars>>

DoCallRunRaises ==
    /\ ncalls < MaxStoreCalls
    /\ \E f \in FuncOps : \E inputs \in ArgSets(f) : CallRunRaises(f, inputs)

\* call_run with user functions that may raise, and commit()
NextCompute == DoCallRun \/ DoCallRunRaises \/ DoCommit

SpecCompute == InitStorage /\ [][NextCompute]_vars

\* call_run and commit()
NextMemo == DoCallRun \/ DoCommit

SpecMemo == InitStorage /\ [][NextMemo]_vars

\* the whole Storage API
NextStorage == DoCallRunSum \/ DoCommit \/ DoCommitCalls \/ EvictCaches \/ DoPreloadObjs

SpecStorage == InitStorage /\ [][NextStorage]_vars

----------------------------------------------------------------------------
(* Storage.execute_query and Context.get_table.  A query list is empty or  *)
(* selects the outputs of the calls of the op sum; the compiled query is   *)
(* run on the relational store.                                            *)

\* Compiler.compile + rel_storage.execute_df: the uids the query selects
execute_df(st) == { st.memo[u].outputs[1] : u \in DOMAIN st.memo }

\* Storage.execute_query: the storage after it, the uids selected and the
\* payloads returned
execute_query(st, select_queries) ==
    IF select_queries = << >>
    THEN [st |-> st, df |-> {}, result |-> {}]
    ELSE [st |-> preload_objs(st, execute_df(st)),
          df |-> execute_df(st),
          result |-> { obj_get(preload_objs(st, execute_df(st)), key).obj : key \in execute_df(st) }]

\* Context.get_table after storage.commit() returned c
get_table_query(c, select_queries) ==
    IF c.exc # "none"
    THEN [st |-> c.st, df |-> {}, result |-> {}, exc |-> c.exc]
    ELSE [st |-> execute_query(c.st, select_queries).st,
          df |-> execute_query(c.st, select_queries).df,
          result |-> execute_query(c.st, select_queries).result,
          exc |-> "none"]

\* Context.get_table of a context whose storage is st
get_table(st, select_queries, fail) ==
    get_table_query(commit(st, NoCalls, fail), select_queries)

QueryLists == { << >>, << "sum" >> }

ExecuteQuery(select_queries) ==
    /\ storage' = execute_query(storage, select_queries).st
    /\ ret' = [op |-> "execute_query", queries |-> select_queries,
               df |-> execute_query(storage, select_queries).df,
               result |-> execute_query(storage, select_queries).result]
    /\ UNCHANGED <<rvars, env, known, runs, execs, ncalls, cvars>>

GetTable(select_queries, fail) ==
    /\ storage' = get_table(storage, select_queries, fail).st
    /\ ret' = [op |-> "get_table", queries |-> select_queries,
               df |-> get_table(storage, select_queries, fail).df,
               result |-> get_table(storage, select_queries, fail).result,
               exc |-> get_table(storage, select_queries, fail).exc]
    /\ UNCHANGED <<rvars, env, known, runs, execs, ncalls, cvars>>

DoExecuteQuery == \E select_queries \in QueryLists : ExecuteQuery(select_queries)

DoGetTable == \E select_queries \in QueryLists : \E fail \in CommitFails : GetTable(select_queries, fail)

NextQuery == DoCallRunSum \/ DoCommit \/ DoExecuteQuery \/ DoGetTable

SpecQuery == InitStorage /\ [][NextQuery]_vars

----------------------------------------------------------------------------
(* Remote sync (main.py: bundle_to_remote, apply_from_remote,              *)
(* sync_from_remote, sync_to_remote).  st.root is "None" or "remote"; the  *)
(* RemoteStorage at root holds st.remote_log, the sequence of the entries  *)
(* saved so far, and its clock is the length of that log.  An entry is a   *)
(* function: internal table name -> blob.                                  *)

\* pq.write_table / pq.read_table
serialize(table) == [parquet |-> table]

deserialize(blob) == blob.parquet

\* SigAdapter.rename_tables: table and column names, UI <-> internal
internal_table_name(name) ==
    IF name = VrefTable THEN name
    ELSE Sig(CHOOSE f \in FuncOps : Sig(f).versioned_ui_name = name).versioned_internal_name

ui_table_name(name) ==
    IF name = VrefTable THEN name
    ELSE Sig(CHOOSE f \in FuncOps : Sig(f).versioned_internal_name = name).versioned_ui_name

\* the op whose signature the store holds for a memoization table
synced_op(ui_name) == "sum"

row_to_internal(row) ==
    LET map == Sig(row.func_op).ui_to_internal_input_map
    IN  [uid |-> row.uid,
         inputs |-> [ik \in { map[k] : k \in DOMAIN row.inputs } |->
                       row.inputs[CHOOSE k \in DOMAIN row.inputs : map[k] = ik]],
         outputs |-> row.outputs]

row_to_ui(f, row) ==
    LET map == Sig(f).ui_to_internal_input_map
    IN  [uid |-> row.uid,
         inputs |-> [k \in { k \in DOMAIN map : map[k] \in DOMAIN row.inputs } |->
                       row.inputs[map[k]]],
         outputs |-> row.outputs,
         func_op |-> f]

rename_tables_to_internal(tables) ==
    [iname \in { internal_table_name(name) : name \in DOMAIN tables } |->
        LET name == ui_table_name(iname)
        IN  IF name = VrefTable THEN tables[name]
            ELSE [u \in DOMAIN tables[name] |-> row_to_internal(tables[name][u])]]

rename_tables_to_ui(tables) ==
    [name \in { ui_table_name(iname) : iname \in DOMAIN tables } |->
        LET iname == internal_table_name(name)
        IN  IF name = VrefTable THEN tables[iname]
            ELSE [u \in DOMAIN tables[iname] |-> row_to_ui(synced_op(name), tables[iname][u])]]

\* the rows of a table of the relational store, by uid
local_table(st, name) ==
    IF name = VrefTable THEN st.vrefs
    ELSE [u \in { u \in DOMAIN st.memo : Sig(st.memo[u].func_op).versioned_ui_name = name } |->
            st.memo[u]]

\* Storage.bundle_to_remote: the rows of the tables named in the event log
\* whose uid is in the event log, under internal names, serialized
bundle_to_remote(st) ==
    LET uids == { e.uid : e \in st.event_log }
        table_names_with_changes == { e.table : e \in st.event_log }
        tables_with_changes ==
            [name \in table_names_with_changes |->
                [u \in DOMAIN local_table(st, name) \cap uids |-> local_table(st, name)[u]]]
        renamed == rename_tables_to_internal(tables_with_changes)
    IN  [iname \in DOMAIN renamed |-> serialize(renamed[iname])]

\* rel_storage.upsert of the rows of one table
rel_upsert(st, name, rows) ==
    IF name = VrefTable THEN [st EXCEPT !.vrefs = Upsert(st.vrefs, rows)]
    ELSE [st EXCEPT !.memo = Upsert(st.memo, rows)]

RECURSIVE rel_upserts(_, _, _)
rel_upserts(st, names, tables) ==
    IF names = {} THEN st
    ELSE LET name == CHOOSE n \in names : TRUE
         IN  rel_upserts(rel_upsert(st, name, tables[name]), names \ {name}, tables)

\* a round that upserts the tables as they came, under their internal names
apply_changeset_no_rename(st, raw_changeset) ==
    LET changeset_data == [iname \in DOMAIN raw_changeset |-> deserialize(raw_changeset[iname])]
        tables == [iname \in DOMAIN changeset_data |->
                     IF iname = VrefTable THEN changeset_data[iname]
                     ELSE [u \in DOMAIN changeset_data[iname] |->
                             [uid |-> u, inputs |-> changeset_data[iname][u].inputs,
                              outputs |-> changeset_data[iname][u].outputs,
                              func_op |-> synced_op(iname)]]]
    IN  rel_upserts(st, DOMAIN tables, tables)

\* a round that also logs the rows it upserts
apply_changeset_logged(st, raw_changeset) ==
    LET changeset_data == [iname \in DOMAIN raw_changeset |-> deserialize(raw_changeset[iname])]
        renamed == rename_tables_to_ui(changeset_data)
        st1 == rel_upserts(st, DOMAIN renamed, renamed)
    IN  [st1 EXCEPT !.event_log = @ \cup UNION { { [table |-> name, uid |-> u] :
                                                     u \in DOMAIN renamed[name] } :
                                                   name \in DOMAIN renamed }]

\* one round of the loop of apply_from_remote
apply_changeset(st, raw_changeset) ==
    LET changeset_data == [iname \in DOMAIN raw_changeset |-> deserialize(raw_changeset[iname])]
        renamed == rename_tables_to_ui(changeset_data)
    IN  rel_upserts(st, DOMAIN renamed, renamed)

RECURSIVE apply_changesets(_, _)
apply_changesets(st, changes) ==
    IF changes = << >> THEN st
    ELSE apply_changesets(apply_changeset(st, Head(changes)), Tail(changes))

\* the uids of the rows of the entries that the store has already
present_uids(st, changes) ==
    { u \in DOMAIN st.vrefs \cup DOMAIN st.memo :
        \E i \in DOMAIN changes : \E iname \in DOMAIN changes[i] :
            u \in DOMAIN deserialize(changes[i][iname]) }

\* an apply_from_remote that inserts: a row that is already there raises
apply_from_remote_insert(st, changes, fail) ==
    IF fail = "apply_from_remote" \/ present_uids(st, changes) # {}
    THEN [st |-> st, exc |-> "apply_from_remote"]
    ELSE [st |-> apply_changesets(st, changes), exc |-> "none"]

\* Storage.apply_from_remote, one transaction (fail = "apply_from_remote":
\* it raises and is rolled back)
apply_from_remote(st, changes, fail) ==
    IF fail = "apply_from_remote"
    THEN [st |-> st, exc |-> "apply_from_remote"]
    ELSE [st |-> apply_changesets(st, changes), exc |-> "none"]

\* RemoteStorage.get_log_entries_since
get_log_entries_since(st, timestamp) ==
    [entries   |-> SubSeq(st.remote_log, timestamp + 1, Len(st.remote_log)),
     timestamp |-> Len(st.remote_log)]

\* RemoteStorage.save_event_log_entry
save_event_log_entry(st, entry) == [st EXCEPT !.remote_log = Append(@, entry)]

\* the part of sync_from_remote after get_log_entries_since returned got
sync_from_remote_apply(st, got, fail) ==
    LET a == apply_from_remote(st, got.entries, fail)
    IN  IF a.exc # "none"
        THEN [st |-> a.st, exc |-> a.exc]
        ELSE [st |-> [a.st EXCEPT !.last_timestamp = got.timestamp], exc |-> "none"]

\* a sync_from_remote that sets last_timestamp before it applies the entries
sync_from_remote_advance_first(st, fail) ==
    IF st.root # "remote" THEN [st |-> st, exc |-> "none"]
    ELSE IF fail \in {"sig_syncer", "get_log_entries_since"} THEN [st |-> st, exc |-> fail]
    ELSE [st  |-> [apply_from_remote(st, get_log_entries_since(st, st.last_timestamp).entries, fail).st
                     EXCEPT !.last_timestamp = Len(st.remote_log)],
          exc |-> apply_from_remote(st, << >>, fail).exc]

\* Storage.sync_from_remote
sync_from_remote(st, fail) ==
    IF st.root # "remote" THEN [st |-> st, exc |-> "none"]
    ELSE IF fail \in {"sig_syncer", "get_log_entries_since"} THEN [st |-> st, exc |-> fail]
    ELSE sync_from_remote_apply(st, get_log_entries_since(st, st.last_timestamp), fail)

\* a sync_to_remote that clears the event log before it sends the bundle
sync_to_remote_clear_first(st, fail) ==
    IF st.root # "remote"
    THEN IF fail = "clear_event_log"
         THEN [st |-> st, exc |-> "clear_event_log"]
         ELSE [st |-> [st EXCEPT !.event_log = {}], exc |-> "none"]
    ELSE IF fail \in {"bundle_to_remote", "clear_event_log"}
         THEN [st |-> st, exc |-> fail]
         ELSE IF fail = "save_event_log_entry"
         THEN [st |-> [st EXCEPT !.event_log = {}], exc |-> fail]
         ELSE [st |-> [save_event_log_entry(st, bundle_to_remote(st)) EXCEPT !.event_log = {}],
               exc |-> "none"]

\* Storage.sync_to_remote
sync_to_remote(st, fail) ==
    IF st.root # "remote"
    THEN IF fail = "clear_event_log"
         THEN [st |-> st, exc |-> "clear_event_log"]
         ELSE [st |-> [st EXCEPT !.event_log = {}], exc |-> "none"]
    ELSE IF fail \in {"bundle_to_remote", "save_event_log_entry"}
         THEN [st |-> st, exc |-> fail]
         ELSE IF fail = "clear_event_log"
         THEN [st |-> save_event_log_entry(st, bundle_to_remote(st)), exc |-> "clear_event_log"]
         ELSE [st |-> [save_event_log_entry(st, bundle_to_remote(st)) EXCEPT !.event_log = {}],
               exc |-> "none"]

----------------------------------------------------------------------------
(* The sync operations called directly by the program, next to a second    *)
(* process that saves entries at the same remote                           *)

\* the entry another process sends after it ran sum(x = p) on its own store
ForeignStore(p) ==
    commit(call_run(StorageInit, "sum", [x |-> Raw(p)]).st, NoCalls, "none").st

ForeignEntry(p) == bundle_to_remote(ForeignStore(p))

ForeignCall(p) == call_run(StorageInit, "sum", [x |-> Raw(p)]).call

SyncFromFails == {"none", "sig_syncer", "get_log_entries_since", "apply_from_remote"}

SyncToFails == {"none", "bundle_to_remote", "save_event_log_entry", "clear_event_log"}

SyncFromRemote(fail) ==
    /\ LET r == sync_from_remote(storage, fail)
       IN  /\ storage' = r.st
           /\ ret' = [op |-> "sync_from_remote", exc |-> r.exc]
    /\ UNCHANGED <<rvars, env, known, runs, execs, ncalls, cvars>>

SyncToRemote(fail) ==
    /\ Len(storage.remote_log) < MaxLog
    /\ LET r == sync_to_remote(storage, fail)
       IN  /\ storage' = r.st
           /\ ret' = [op |-> "sync_to_remote", exc |-> r.exc]
    /\ UNCHANGED <<rvars, env, known, runs, execs, ncalls, cvars>>

\* the other process: save_event_log_entry at the remote
RemoteSave(p) ==
    /\ storage.root = "remote"
    /\ Len(storage.remote_log) < MaxLog
    /\ storage' = save_event_log_entry(storage, ForeignEntry(p))
    /\ ret' = [op |-> "remote_save"]
    /\ UNCHANGED <<rvars, env, known, runs, execs, ncalls, cvars>>

ApplyFromRemote(changes) ==
    /\ LET r == apply_from_remote(storage, changes, "none")
       IN  /\ storage' = r.st
           /\ ret' = [op |-> "apply_from_remote", exc |-> r.exc, changes |-> changes]
    /\ UNCHANGED <<rvars, env, known, runs, execs, ncalls, cvars>>

\* apply_from_remote([bundle_to_remote()]) on the one store
BundleApply ==
    /\ LET r == apply_from_remote(storage, << bundle_to_remote(storage) >>, "none")
       IN  /\ storage' = r.st
           /\ ret' = [op |-> "bundle_apply", exc |-> r.exc, bundle |-> bundle_to_remote(storage)]
    /\ UNCHANGED <<rvars, env, known, runs, execs, ncalls, cvars>>

\* the lists of entries the program passes to apply_from_remote
ChangeLists ==
    LET E == { storage.remote_log[i] : i \in DOMAIN storage.remote_log }
    IN  { << e >> : e \in E } \cup { << e, e >> : e \in E }
        \cup { SubSeq(storage.remote_log, i, i + 1) : i \in 1..(Len(storage.remote_log) - 1) }

DoCallRunRaw ==
    /\ ncalls < MaxSyncCalls
    /\ \E p \in Payloads : CallRun("sum", [x |-> Raw(p)])

DoCommitOk == Commit("none")

DoSyncFromRemote == \E fail \in SyncFromFails : SyncFromRemote(fail)

DoSyncToRemote == \E fail \in SyncToFails : SyncToRemote(fail)

DoRemoteSave == \E p \in Payloads : RemoteSave(p)

DoApplyFromRemote == \E changes \in ChangeLists : ApplyFromRemote(changes)

NextSync ==
    \/ DoCallRunRaw \/ DoCommitOk \/ DoSyncFromRemote \/ DoSyncToRemote
    \/ DoRemoteSave \/ DoApplyFromRemote \/ BundleApply

InitSync ==
    /\ \E root \in {"None", "remote"} : InitFrom([StorageInit EXCEPT !.root = root])
    /\ Config.autocommit /\ ~Config.evict_on_commit

SpecSync == InitSync /\ [][NextSync]_vars

----------------------------------------------------------------------------
(* sync_to_remote statement by statement, next to a second process that    *)
(* commits to the same relational store.  bundle_to_remote and each         *)
(* adapter call of the other process are transactions; nothing spans the   *)
(* three statements of sync_to_remote.                                      *)

\* changes = self.bundle_to_remote(); log is the event log the bundle read
SyncBundle ==
    /\ sync.at = "idle"
    /\ storage.root = "remote"
    /\ Len(storage.remote_log) < MaxLog
    /\ sync' = [at |-> "bundled", changes |-> bundle_to_remote(storage),
                log |-> storage.event_log]
    /\ ret' = [op |-> "bundle_to_remote"]
    /\ UNCHANGED <<Config, svars_but_ret, cvars, rvars>>

\* self.root.save_event_log_entry(changes)
SyncSave ==
    /\ sync.at = "bundled"
    /\ sync' = [sync EXCEPT !.at = "saved"]
    /\ storage' = save_event_log_entry(storage, sync.changes)
    /\ ret' = [op |-> "save_event_log_entry"]
    /\ UNCHANGED <<Config, known, runs, execs, ncalls, cvars, rvars>>

\* self.rel_adapter.clear_event_log(), and sync_to_remote returns
SyncClear ==
    /\ sync.at = "saved"
    /\ sync' = [at |-> "idle"]
    /\ storage' = [storage EXCEPT !.event_log = {}]
    /\ ret' = [op |-> "sync_to_remote", exc |-> "none", sent |-> sync.log,
               cleared |-> storage.event_log]
    /\ UNCHANGED <<Config, known, runs, execs, ncalls, cvars, rvars>>

\* the other process ran sum(x = p) on its own caches and commits: obj_sets
\* and upsert_calls on the shared relational store
ForeignCommit(p) ==
    /\ storage' = rel_upsert_calls(
                      rel_obj_sets(storage, [u \in { v.uid : v \in CallRefs(ForeignCall(p)) } |->
                                               CHOOSE v \in CallRefs(ForeignCall(p)) : v.uid = u]),
                      [u \in {ForeignCall(p).uid} |-> ForeignCall(p)])
    /\ ret' = [op |-> "foreign_commit"]
    /\ UNCHANGED <<env, known, runs, execs, ncalls, cvars, rvars>>

DoForeignCommit == \E p \in Payloads : ForeignCommit(p)

\* this process runs one statement at a time
ProcessIdle == sync.at = "idle" /\ (DoCallRunRaw \/ DoCommitOk)

NextShared == ProcessIdle \/ SyncBundle \/ SyncSave \/ SyncClear \/ DoForeignCommit

InitShared ==
    /\ InitFrom([StorageInit EXCEPT !.root = "remote"])
    /\ Config.autocommit /\ ~Config.evict_on_commit

SpecShared == InitShared /\ [][NextShared]_vars

----------------------------------------------------------------------------
(* Context and GlobalContext (main.py), FuncInterface.__call__ (funcs.py)  *)

UpdateKeys == {"storage", "mode", "lazy"}

\* the arguments the program passes to Context.__call__ of context c:
\* <<storage, keyword arguments>>
CallArgs(c) ==
    CASE c = "run"   -> { <<"S", << >> >>, <<"None", [lazy |-> TRUE]>>,
                          <<"S", [mode |-> "query"]>>, <<"S", [foo |-> TRUE]>> }
      [] c = "query" -> { <<"S", << >> >> }
      [] c = "batch" -> { <<"S", << >> >>, <<"None", [lazy |-> TRUE]>> }

State3(c) == [storage |-> c.storage, mode |-> c.mode, lazy |-> c.lazy]

context_call(c, storage_arg, updates) ==
    [c EXCEPT !.updates = [k \in {"storage"} \cup DOMAIN updates |->
                              IF k = "storage" THEN storage_arg ELSE updates[k]]]

\* a backup that records the values about to be applied, not the current ones
backup_state_of_updates(c, keys) == [k \in keys |-> c.updates[k]]

\* Context._backup_state
backup_state(c, keys) == [k \in keys |-> c[k]]

IsNone(k, v) == k = "storage" /\ v = "None"

apply_updates(c, updates) ==
    LET new(k, old) == IF k \in DOMAIN updates /\ ~IsNone(k, updates[k]) THEN updates[k] ELSE old
    IN  [c EXCEPT !.storage = new("storage", @), !.mode = new("mode", @), !.lazy = new("lazy", @)]

\* Context.__enter__ after the update keys were verified
context_enter(c) ==
    LET before_update == backup_state(c, DOMAIN c.updates)
        pushed == [c EXCEPT !.updates_stack = Append(@, before_update)]
    IN  apply_updates(pushed, c.updates)

restore(c, ascent_updates) ==
    LET old(k, cur) == IF k \in DOMAIN ascent_updates THEN ascent_updates[k] ELSE cur
    IN  [c EXCEPT !.storage = old("storage", @), !.mode = old("mode", @), !.lazy = old("lazy", @)]

\* Context._undo_updates: the context after it, whether it unlinked the
\* global context, and the exception it raised
undo_updates(c) ==
    IF c.updates_stack = << >>
    THEN [c |-> c, unlink |-> FALSE, exc |-> "RuntimeError"]
    ELSE LET n == Len(c.updates_stack)
             popped == [c EXCEPT !.updates_stack = SubSeq(@, 1, n - 1)]
         IN  [c |-> restore(popped, c.updates_stack[n]),
              unlink |-> (n = 1), exc |-> "none"]

\* SimpleWorkflowExecutor.execute over the call structs in order: the
\* storage and the bookkeeping after it, the calls without repeated uids,
\* and the exception raised (fail = "compute": the user function raises)
execute_step(acc, cs, fail) ==
    IF acc.exc # "none" THEN acc
    ELSE LET r == call_run(acc.st, cs.func_op, cs.inputs)
         IN  IF fail = "compute" /\ r.executed
             THEN [acc EXCEPT !.exc = "compute"]
             ELSE [st |-> r.st, h |-> Rec(acc.h, cs.func_op, cs.inputs, r),
                   calls |-> IF \E call \in acc.calls : call.uid = r.call.uid
                             THEN acc.calls ELSE acc.calls \cup {r.call},
                   exc |-> "none"]

execute(st, h, structs, fail) ==
    LET F[i \in 0..Len(structs)] ==
            IF i = 0 THEN [st |-> st, h |-> h, calls |-> {}, exc |-> "none"]
            ELSE execute_step(F[i - 1], structs[i], fail)
    IN  F[Len(structs)]

exit_batch(e, fail) ==
    IF e.exc # "none"
    THEN [st |-> e.st, h |-> e.h, exc |-> e.exc]
    ELSE LET r == commit(e.st, CallsList(e.calls), fail)
         IN  [st |-> r.st, h |-> e.h, exc |-> r.exc]

\* the try block of Context.__exit__
exit_path(c, st, h, fail) ==
    CASE c.mode = "run" ->
           IF c.storage = "None"
           THEN [st |-> st, h |-> h, exc |-> "AttributeError"]
           ELSE LET r1 == IF Config.autocommit THEN commit(st, NoCalls, fail)
                          ELSE [st |-> st, exc |-> "none"]
                    r2 == sync_to_remote(r1.st, fail)
                IN  IF r1.exc # "none"
                    THEN [st |-> r1.st, h |-> h, exc |-> r1.exc]
                    ELSE [st |-> r2.st, h |-> h, exc |-> r2.exc]
      [] c.mode = "query" -> [st |-> st, h |-> h, exc |-> "none"]
      [] c.mode = "batch" ->
           IF c.storage = "None"
           THEN [st |-> st, h |-> h, exc |-> "AttributeError"]
           ELSE exit_batch(execute(st, h, c.call_structs, fail), fail)
      [] OTHER -> [st |-> st, h |-> h, exc |-> "ValueError"]

\* an __exit__ that raises the exception of the exit path at once
context_exit_raise_first(c, path_exc, body_exc) ==
    IF path_exc # "none"
    THEN [c |-> c, unlink |-> FALSE, exc |-> path_exc]
    ELSE LET u == undo_updates(c)
         IN  [c |-> u.c, unlink |-> u.unlink,
              exc |-> IF u.exc # "none" THEN u.exc
                      ELSE IF body_exc THEN "body" ELSE "none"]

\* Context.__exit__ after its try block: undo the updates, then raise the
\* exception of the exit path, else the exception of the with-body
context_exit(c, path_exc, body_exc) ==
    LET u == undo_updates(c)
    IN  [c |-> u.c, unlink |-> u.unlink,
         exc |-> IF u.exc # "none" THEN u.exc
                 ELSE IF path_exc # "none" THEN path_exc
                 ELSE IF body_exc THEN "body" ELSE "none"]

\* Context.__enter__ of the context object c0
\* Context.__enter__ from the backup on, where s is the outcome of
\* sync_from_remote; the with-body is entered when __enter__ returned
enter_sync(c, c0, s) ==
    /\ ctx' = [ctx EXCEPT ![c] = context_enter(c0)]
    /\ storage' = s.st
    /\ entered' = IF s.exc = "none"
                  THEN Append(entered, [ctx |-> c, before |-> State3(c0)])
                  ELSE entered
    /\ ret' = [op |-> "enter", ctx |-> c, exc |-> s.exc]

enter(c, c0, fail) ==
    /\ current' = IF current = "None" THEN c ELSE current
    /\ IF ~(DOMAIN c0.updates \subseteq UpdateKeys)
       THEN /\ ret' = [op |-> "enter", ctx |-> c, exc |-> "ValueError"]
            /\ ctx' = [ctx EXCEPT ![c] = c0]
            /\ UNCHANGED <<entered, storage>>
       ELSE enter_sync(c, c0, IF context_enter(c0).storage # "None"
                              THEN sync_from_remote(storage, fail)
                              ELSE [st |-> storage, exc |-> "none"])

EnterFails == {"none", "apply_from_remote"}

\* with c: -- __enter__ with the updates of the last __call__
Enter(c, fail) ==
    /\ nctx < MaxEnters
    /\ nctx' = nctx + 1
    /\ enter(c, ctx[c], fail)
    /\ UNCHANGED <<rvars, env, known, runs, execs, ncalls, nfcalls>>

\* with c(storage, **updates): -- __call__, then __enter__
With(c, storage_arg, updates, fail) ==
    /\ nctx < MaxEnters
    /\ nctx' = nctx + 1
    /\ enter(c, context_call(ctx[c], storage_arg, updates), fail)
    /\ UNCHANGED <<rvars, env, known, runs, execs, ncalls, nfcalls>>

ExitFails ==
    {"none", "obj_sets", "upsert_calls", "clear_event_log", "compute", "save_event_log_entry"}

\* Context.__exit__ of the context c, where p is the outcome of its try block
exit(c, p, body_exc) ==
    LET x == context_exit(ctx[c], p.exc, body_exc)
    IN  /\ storage' = p.st
        /\ SetHist(p.h)
        /\ ctx' = [ctx EXCEPT ![c] = x.c]
        /\ current' = IF x.unlink THEN "None" ELSE current
        /\ ret' = [op |-> "exit", ctx |-> c, mode |-> ctx[c].mode,
                   before |-> entered[Len(entered)].before,
                   snapshot |-> ctx[c].updates_stack[Len(ctx[c].updates_stack)],
                   depth |-> Len(ctx[c].updates_stack),
                   path_exc |-> p.exc, body_exc |-> body_exc, exc |-> x.exc]

\* the with-statement calls __exit__ of the innermost entered context
Exit(c, body_exc, fail) ==
    /\ entered # << >>
    /\ entered[Len(entered)].ctx = c
    /\ exit(c, exit_path(ctx[c], storage, Hist, fail), body_exc)
    /\ entered' = SubSeq(entered, 1, Len(entered) - 1)
    /\ UNCHANGED <<rvars, env, nctx, nfcalls>>

\* FuncInterface.__call__ of the op "sum"
FCall(f, inputs) ==
    /\ nfcalls < MaxFCalls
    /\ nfcalls' = nfcalls + 1
    /\ IF current = "None"
       THEN /\ ret' = [op |-> "fcall", how |-> "plain", exc |-> "none"]
            /\ UNCHANGED <<svars_but_ret, ctx>>
       ELSE LET context == ctx[current]
            IN  CASE context.storage = "None" ->
                       /\ ret' = [op |-> "fcall", how |-> context.mode, exc |-> "AttributeError"]
                       /\ UNCHANGED <<svars_but_ret, ctx>>
                  [] context.storage # "None" /\ context.mode = "run" ->
                       LET r == call_run(storage, f, inputs)
                       IN  /\ storage' = r.st
                           /\ SetHist(Rec(Hist, f, inputs, r))
                           /\ ret' = RetCallRun(f, inputs, r)
                           /\ UNCHANGED ctx
                  [] context.storage # "None" /\ context.mode = "query" ->
                       /\ ret' = [op |-> "fcall", how |-> "query", exc |-> "none"]
                       /\ UNCHANGED <<svars_but_ret, ctx>>
                  [] context.storage # "None" /\ context.mode = "batch" ->
                       /\ ctx' = [ctx EXCEPT ![current].call_structs =
                                     Append(@, [func_op |-> f, inputs |-> wrap_inputs(inputs)])]
                       /\ ret' = [op |-> "fcall", how |-> "batch", exc |-> "none"]
                       /\ UNCHANGED svars_but_ret
    /\ UNCHANGED <<rvars, env, current, entered, nctx>>

DoWith ==
    \E c \in Ctxs : \E args \in CallArgs(c) : \E fail \in EnterFails :
        With(c, args[1], args[2], fail)

DoEnter == \E c \in Ctxs : \E fail \in EnterFails : Enter(c, fail)

DoExit == \E c \in Ctxs : \E body_exc \in BOOLEAN : \E fail \in ExitFails : Exit(c, body_exc, fail)

DoFCall == \E p \in Payloads : FCall("sum", [x |-> Raw(p)])

NextContext == DoWith \/ DoEnter \/ DoExit \/ DoFCall

\* the contexts are exercised with evict_on_commit off
InitContext == Init /\ ~Config.evict_on_commit

SpecContext == InitContext /\ [][NextContext]_vars

\* the contexts over a Storage whose root is a remote that a second process
\* saves entries at
NextRemoteContext == DoWith \/ DoEnter \/ DoExit \/ DoFCall \/ DoRemoteSave

InitRemoteContext ==
    /\ InitFrom([StorageInit EXCEPT !.root = "remote"])
    /\ ~Config.evict_on_commit

SpecRemoteContext == InitRemoteContext /\ [][NextRemoteContext]_vars

----------------------------------------------------------------------------
(* RefFunctor (src/mandala/ui/reffunctors.py).  A Ref is a number.  The     *)
(* provenance table maps a Ref to the call that created it and the output  *)
(* name it was created under: [op, inputs, out], inputs being the input    *)
(* refs in the order of the op's input_types.  A functor is a record       *)
(*   vnames      the keys of val_nodes in insertion order                  *)
(*   node        column name -> its ValNode; a ValNode is the number it    *)
(*               got when it was made, 1, 2, ..                            *)
(*   refs        the refs of the ValNodes 1, 2, .. of the graph            *)
(*   call_nodes  call name -> [func_op, call_uids, inputs, outputs];       *)
(*               inputs maps an input name and outputs an output name to   *)
(*               a ValNode                                                 *)
(*   gen         the method invocation that made the node objects of the   *)
(*               functor (0: from_refs, from_op): the ValNode i of the     *)
(*               functor is the object <<gen, i>>                          *)
(* The names "p", "p0", "p1", .. are <<"p">>, <<"p", 0>>, <<"p", 1>>, ..   *)
(* refs_hash and call_uids_hash are taken to be collision free and are     *)
(* represented by the hashed lists.                                        *)

Refs == 0..MaxRef

OutputNames == {"output_0", "output_1"}

NoCreator == [op |-> "None", inputs |-> << >>, out |-> "None"]

\* op.input_types of the ops inc(x), add(x, y) and gen()
input_types(op) ==
    CASE op = "inc" -> <<"x">>
      [] op = "add" -> <<"x", "y">>
      [] OTHER -> << >>

\* what the provenance table can say about the ref r
Creators(r) ==
    {NoCreator}
    \cup { [op |-> "inc", inputs |-> <<a>>, out |-> "output_0"] : a \in 0..(r - 1) }
    \cup { [op |-> "add", inputs |-> <<a, b>>, out |-> "output_0"] : a \in 0..(r - 1), b \in 0..(r - 1) }
    \cup { [op |-> "gen", inputs |-> << >>, out |-> o] : o \in OutputNames }

\* the provenance tables: acyclic, and an output of a call is one ref
ProvTables ==
    { p \in [Refs -> UNION { Creators(r) : r \in Refs }] :
        /\ \A r \in Refs : p[r] \in Creators(r)
        /\ \A r \in Refs : (p[r].op = "add") => p[r].inputs[1] <= p[r].inputs[2]
        /\ \A r, s \in Refs : (r # s /\ p[r].op # "None") => p[r] # p[s] }

\* storage.get_creators: per ref the creator call and the output name
get_creators(refs, prov) == [i \in DOMAIN refs |-> prov[refs[i]]]

Keys(f) == { f.vnames[i] : i \in DOMAIN f.vnames }

\* get_new_vname(hint) and get_new_cname(op) over the names taken
get_new_name(taken, hint) ==
    IF <<hint>> \notin taken
    THEN <<hint>>
    ELSE <<hint, CHOOSE i \in 0..Cardinality(taken) :
                    /\ <<hint, i>> \notin taken
                    /\ \A j \in 0..(i - 1) : <<hint, j>> \in taken>>

\* the refs of the column col
col_refs(f, col) == f.refs[f.node[col]]

from_refs(refs) ==
    [vnames |-> << <<"v", 0>> >>, node |-> (<<"v", 0>> :> 1), refs |-> <<refs>>,
     call_nodes |-> EmptyFcn, gen |-> 0]

\* filtered without the check of the output names
filtered_any_output_name(f, prov, col) ==
    /\ \A i \in DOMAIN col_refs(f, col) : prov[col_refs(f, col)[i]].op # "None"
    /\ Cardinality({ prov[col_refs(f, col)[i]].op : i \in DOMAIN col_refs(f, col) }) <= 1

\* back, the checks of a column: every value has a creator, one op, one
\* output name
filtered(f, prov, col) ==
    /\ \A i \in DOMAIN col_refs(f, col) : prov[col_refs(f, col)[i]].op # "None"
    /\ Cardinality({ prov[col_refs(f, col)[i]].op : i \in DOMAIN col_refs(f, col) }) <= 1
    /\ Cardinality({ prov[col_refs(f, col)[i]].out : i \in DOMAIN col_refs(f, col) }) <= 1

\* call.causal_uid of the creator calls of a column
col_uids(f, prov, col) ==
    [i \in DOMAIN col_refs(f, col) |->
        <<get_creators(col_refs(f, col), prov)[i].op, get_creators(col_refs(f, col), prov)[i].inputs>>]

col_to_output_name(f, prov, col) == prov[col_refs(f, col)[1]].out

\* back, groups: the columns grouped by call_uids_hash, in the order of
\* the first column of each group
group_representatives(f, prov, cols) ==
    SelectSeq(cols, LAMBDA c :
        \A i, j \in DOMAIN cols :
            (cols[i] = c /\ col_uids(f, prov, cols[j]) = col_uids(f, prov, c)) => i <= j)

col_group(f, prov, cols, col_representative) ==
    SelectSeq(cols, LAMBDA c : col_uids(f, prov, c) = col_uids(f, prov, col_representative))

\* back, one input of the group's op: reuse the first ValNode with the
\* same refs_hash, else add a new column named after the input
input_node(acc, input_name, refs) ==
    IF SelectSeq(acc.f.vnames, LAMBDA v : col_refs(acc.f, v) = refs) # << >>
    THEN [f |-> acc.f,
          inputs |-> acc.inputs @@
                     (input_name :>
                        acc.f.node[SelectSeq(acc.f.vnames, LAMBDA v : col_refs(acc.f, v) = refs)[1]])]
    ELSE [f |-> [acc.f EXCEPT
                   !.vnames = Append(@, get_new_name(Keys(acc.f), input_name)),
                   !.node = @ @@ (get_new_name(Keys(acc.f), input_name) :> Len(acc.f.refs) + 1),
                   !.refs = Append(@, refs)],
          inputs |-> acc.inputs @@ (input_name :> Len(acc.f.refs) + 1)]

input_nodes(f, group_calls) ==
    LET names == input_types(group_calls[1].op)
        F[k \in 0..Len(names)] ==
            IF k = 0 THEN [f |-> f, inputs |-> EmptyFcn]
            ELSE input_node(F[k - 1], names[k],
                            [i \in DOMAIN group_calls |-> group_calls[i].inputs[k]])
    IN F[Len(names)]

\* back, an existing CallNode with the hash: link the outputs it lacks
link_outputs(f, prov, call_node, group) ==
    LET F[k \in 0..Len(group)] ==
            IF k = 0 THEN call_node
            ELSE IF \E o \in DOMAIN F[k - 1].outputs : F[k - 1].outputs[o] = f.node[group[k]]
            THEN F[k - 1]
            ELSE [F[k - 1] EXCEPT !.outputs =
                    [o \in DOMAIN @ \cup {col_to_output_name(f, prov, group[k])} |->
                        IF o = col_to_output_name(f, prov, group[k]) THEN f.node[group[k]] ELSE @[o]]]
    IN F[Len(group)]

\* CallNode.link of a new CallNode; a later column of the group replaces
\* an earlier one under the same output name
new_call_node(f, prov, inputs, group) ==
    [func_op |-> prov[col_refs(f, group[1])[1]].op,
     call_uids |-> col_uids(f, prov, group[1]),
     inputs |-> inputs,
     outputs |-> [o \in { col_to_output_name(f, prov, group[k]) : k \in DOMAIN group } |->
                    f.node[group[CHOOSE k \in DOMAIN group :
                                    /\ col_to_output_name(f, prov, group[k]) = o
                                    /\ \A j \in DOMAIN group :
                                         col_to_output_name(f, prov, group[j]) = o => j <= k]]]]

\* back, the group's CallNode, g being the functor with the input nodes
call_node_of_group(f, prov, g, group) ==
    IF \E cn \in DOMAIN g.f.call_nodes : g.f.call_nodes[cn].call_uids = col_uids(f, prov, group[1])
    THEN [g.f EXCEPT !.call_nodes =
            [@ EXCEPT ![CHOOSE cn \in DOMAIN @ : @[cn].call_uids = col_uids(f, prov, group[1])] =
                        link_outputs(f, prov, @, group)]]
    ELSE [g.f EXCEPT !.call_nodes =
            @ @@ (get_new_name(DOMAIN @, prov[col_refs(f, group[1])[1]].op) :>
                    new_call_node(f, prov, g.inputs, group))]

\* back, the loop over the groups: the input nodes, then the CallNode
back_groups(f, prov, cols) ==
    LET reps == group_representatives(f, prov, cols)
        F[k \in 0..Len(reps)] ==
            IF k = 0 THEN f
            ELSE call_node_of_group(F[k - 1], prov,
                     input_nodes(F[k - 1], get_creators(col_refs(f, reps[k]), prov)),
                     col_group(f, prov, cols, reps[k]))
    IN F[Len(reps)]

\* back(cols) that links the columns that pass the checks before it
\* raises for one that does not
back_cols_raises_late(f, prov, cols, silent_failure) ==
    IF ~silent_failure /\ \E i \in DOMAIN cols : ~filtered(f, prov, cols[i])
    THEN [rf |-> IF \E i \in DOMAIN cols : col_refs(f, cols[i]) = << >> THEN f
                 ELSE back_groups(f, prov, SelectSeq(cols, LAMBDA c : filtered(f, prov, c))),
          exc |-> "ValueError"]
    ELSE IF \E i \in DOMAIN cols : col_refs(f, cols[i]) = << >>
    THEN [rf |-> f, exc |-> "IndexError"]
    ELSE [rf |-> back_groups(f, prov, SelectSeq(cols, LAMBDA c : filtered(f, prov, c))),
          exc |-> "none"]

\* back(cols) with a list of columns, on the functor f itself
\* (a column without rows passes the checks, and creator_calls[col][0]
\* raises before anything is changed)
back_cols(f, prov, cols, silent_failure) ==
    IF ~silent_failure /\ \E i \in DOMAIN cols : ~filtered(f, prov, cols[i])
    THEN [rf |-> f, exc |-> "ValueError"]
    ELSE IF \E i \in DOMAIN cols : col_refs(f, cols[i]) = << >>
    THEN [rf |-> f, exc |-> "IndexError"]
    ELSE [rf |-> back_groups(f, prov, SelectSeq(cols, LAMBDA c : filtered(f, prov, c))),
          exc |-> "none"]

\* list(node_frontier) of a set: in insertion order or the reverse of it
frontier_list(f, node_frontier, order) ==
    LET l == SelectSeq(f.vnames, LAMBDA v : v \in node_frontier)
    IN IF order = "asc" THEN l ELSE [i \in DOMAIN l |-> l[Len(l) + 1 - i]]

RECURSIVE back_round(_, _, _, _)
\* back(cols=None), the loop after res.back returned res in a round:
\* visited already holds the frontier of that round
back_round(res, prov, visited, order) ==
    IF Keys(res) \ visited = {}
    THEN res
    ELSE back_round(back_cols(res, prov, frontier_list(res, Keys(res) \ visited, order), TRUE).rf,
                    prov, visited \cup (Keys(res) \ visited), order)

\* back(cols=None), the first round: node_frontier is the keys view of
\* res.val_nodes, res being self (inplace) or the copy of self.  With
\* inplace res.back expands that same functor, so the view holds the new
\* columns when it is added to visited; without it res.back expands a
\* copy of its own and the view still holds the columns of before.
back_none(f, prov, inplace, order) ==
    back_round(back_cols(f, prov, f.vnames, TRUE).rf, prov,
               IF inplace THEN Keys(back_cols(f, prov, f.vnames, TRUE).rf) ELSE Keys(f),
               order)

\* the rounds of back(cols=None) that are followed before the loop is
\* given up as not ending
MaxRounds == MaxRef + 2

RECURSIVE back_loop_forgets_visited(_, _, _, _, _)
\* the loop without `visited |= node_frontier`
back_loop_forgets_visited(T, prov, visited, order, fuel) ==
    IF Keys(T[Len(T)]) \ visited = {} THEN [trace |-> T, done |-> TRUE]
    ELSE IF fuel = 0 THEN [trace |-> T, done |-> FALSE]
    ELSE CHOOSE b \in
           { back_loop_forgets_visited(Append(T, r), prov, visited, order, fuel - 1) :
               r \in { back_cols(T[Len(T)], prov,
                                 frontier_list(T[Len(T)], Keys(T[Len(T)]) \ visited, order), TRUE).rf } } :
           TRUE

RECURSIVE back_loop(_, _, _, _, _)
\* back(cols=None), the while loop round by round: T lists res before the
\* loop and after each round, visited holds the frontier of the last
\* round; r is what res.back returns in the next round, and the loop
\* breaks when nodes_after - visited is empty
back_loop(T, prov, visited, order, fuel) ==
    IF Keys(T[Len(T)]) \ visited = {} THEN [trace |-> T, done |-> TRUE]
    ELSE IF fuel = 0 THEN [trace |-> T, done |-> FALSE]
    ELSE CHOOSE b \in
           { back_loop(Append(T, r), prov, visited \cup (Keys(T[Len(T)]) \ visited), order, fuel - 1) :
               r \in { back_cols(T[Len(T)], prov,
                                 frontier_list(T[Len(T)], Keys(T[Len(T)]) \ visited, order), TRUE).rf } } :
           TRUE

\* back(cols=None) on res from its first round on, r1 being what the
\* first round returns
back_trace(res, prov, inplace, order) ==
    CHOOSE b \in
      { back_loop(<<res, r1>>, prov, IF inplace THEN Keys(r1) ELSE Keys(res), order, MaxRounds) :
          r1 \in { back_cols(res, prov, res.vnames, TRUE).rf } } :
      TRUE

NoCols == [is_none |-> TRUE, list |-> << >>]

\* copy that makes a new functor over the nodes of f
copy_shares_nodes(f, gen) == f

\* RefFunctor.copy, made in the method invocation gen: copy_subgraph
\* copies the ValNodes of val_nodes and the CallNodes with the edges among
\* them
copy(f, gen) ==
    [f EXCEPT
       !.gen = gen,
       !.call_nodes =
          [cn \in DOMAIN @ |->
             [@[cn] EXCEPT
                !.inputs = [n \in { m \in DOMAIN @ : \E v \in Keys(f) : f.node[v] = @[m] } |-> @[n]],
                !.outputs = [o \in { m \in DOMAIN @ : \E v \in Keys(f) : f.node[v] = @[m] } |-> @[o]]]]]

\* RefFunctor.back on res, which is self (inplace) or the copy of self:
\* the functor returned, self after the call, the error
back_res(f, res, prov, cols, inplace, silent_failure, order) ==
    IF cols.is_none
    THEN IF back_cols(res, prov, res.vnames, TRUE).exc # "none"
         THEN [res |-> f, self |-> f, exc |-> back_cols(res, prov, res.vnames, TRUE).exc]
         ELSE [res |-> back_none(res, prov, inplace, order),
               self |-> IF inplace THEN back_none(res, prov, inplace, order) ELSE f,
               exc |-> "none"]
    ELSE [res |-> back_cols(res, prov, cols.list, silent_failure).rf,
          self |-> IF inplace THEN back_cols(res, prov, cols.list, silent_failure).rf ELSE f,
          exc |-> back_cols(res, prov, cols.list, silent_failure).exc]

\* RefFunctor.back called in the method invocation gen
back(f, prov, cols, inplace, silent_failure, order, gen) ==
    back_res(f, IF inplace THEN f ELSE copy(f, gen), prov, cols, inplace, silent_failure, order)

\* storage.get_table(func): the refs the calls of op created, the rows of
\* the memoization table of op
op_table(op, prov) ==
    SelectSeq([i \in 1..(MaxRef + 1) |-> i - 1], LAMBDA r : prov[r].op = op)

\* RefFunctor.from_op of an op with one output: a ValNode per input and
\* per output, in this order, and the CallNode of the table's calls
from_op(op, prov) ==
    [vnames |-> [k \in 1..(Len(input_types(op)) + 1) |->
                    IF k <= Len(input_types(op)) THEN <<input_types(op)[k]>> ELSE <<"output_0">>],
     node |-> [v \in { <<input_types(op)[k]>> : k \in DOMAIN input_types(op) } \cup { <<"output_0">> } |->
                    IF v = <<"output_0">> THEN Len(input_types(op)) + 1
                    ELSE CHOOSE k \in DOMAIN input_types(op) : input_types(op)[k] = v[1]],
     refs |-> [k \in 1..(Len(input_types(op)) + 1) |->
                    IF k <= Len(input_types(op))
                    THEN [i \in DOMAIN op_table(op, prov) |-> prov[op_table(op, prov)[i]].inputs[k]]
                    ELSE op_table(op, prov)],
     call_nodes |-> (<<op>> :>
                    [func_op |-> op,
                     call_uids |-> [i \in DOMAIN op_table(op, prov) |->
                                      <<op, prov[op_table(op, prov)[i]].inputs>>],
                     inputs |-> [n \in { input_types(op)[k] : k \in DOMAIN input_types(op) } |->
                                      CHOOSE k \in DOMAIN input_types(op) : input_types(op)[k] = n],
                     outputs |-> [o \in {"output_0"} |-> Len(input_types(op)) + 1]]),
     gen |-> 0]

\* ValNode.mask and CallNode.mask: the rows of l at the positions where
\* the mask m is true
mask_list(l, m) ==
    LET kept == SelectSeq([i \in 1..Len(l) |-> i], LAMBDA i : m[i])
    IN [k \in 1..Len(kept) |-> l[kept[k]]]

\* mask that filters the ValNodes and leaves the CallNodes as they are
mask_val_nodes_only(f, m, gen) ==
    [copy(f, gen) EXCEPT
       !.refs = [v \in DOMAIN @ |->
                   IF \E c \in Keys(f) : f.node[c] = v THEN mask_list(@[v], m) ELSE @[v]]]

\* RefFunctor.__getitem__ with a boolean mask, in the method invocation gen
mask(f, m, gen) ==
    [copy(f, gen) EXCEPT
       !.refs = [v \in DOMAIN @ |->
                   IF \E c \in Keys(f) : f.node[c] = v THEN mask_list(@[v], m) ELSE @[v]],
       !.call_nodes = [cn \in DOMAIN @ |-> [@[cn] EXCEPT !.call_uids = mask_list(@, m)]]]

\* rename, one item of columns: val_nodes[new_name] = val_nodes.pop(old_name)
rename_item(f, old_name, new_name) ==
    [f EXCEPT
       !.vnames = IF \E i \in DOMAIN @ : @[i] = new_name /\ new_name # old_name
                  THEN SelectSeq(@, LAMBDA v : v # old_name)
                  ELSE Append(SelectSeq(@, LAMBDA v : v # old_name), new_name),
       !.node = [v \in (DOMAIN @ \ {old_name}) \cup {new_name} |->
                    IF v = new_name THEN @[old_name] ELSE @[v]]]

\* rename, the loop over columns on res
rename_items(res, columns) ==
    LET F[k \in 0..Len(columns)] ==
            IF k = 0 THEN res ELSE rename_item(F[k - 1], columns[k][1], columns[k][2])
    IN F[Len(columns)]

\* rename that checks the source names only
rename_no_target_check(f, columns, inplace, gen) ==
    IF \E k \in DOMAIN columns : columns[k][1] \notin Keys(f)
    THEN [res |-> f, self |-> f, exc |-> "ValueError"]
    ELSE [res |-> rename_items(IF inplace THEN f ELSE copy(f, gen), columns),
          self |-> IF inplace THEN rename_items(f, columns) ELSE f,
          exc |-> "none"]

\* RefFunctor.rename, columns being the list of the items (old, new) of
\* the dict: the functor returned, self after the call, the error
rename(f, columns, inplace, gen) ==
    IF \E k \in DOMAIN columns : columns[k][1] \notin Keys(f) \/ columns[k][2] \in Keys(f)
    THEN [res |-> f, self |-> f, exc |-> "ValueError"]
    ELSE [res |-> rename_items(IF inplace THEN f ELSE copy(f, gen), columns),
          self |-> IF inplace THEN rename_items(f, columns) ELSE f,
          exc |-> "none"]

----------------------------------------------------------------------------
(* The program makes a functor with from_refs and expands it with back,    *)
(* going on with the functor back returned                                 *)

\* the columns from_refs is given: 1..MaxRows distinct refs, listed in
\* ascending order (a functor treats all its rows alike)
RefLists ==
    { refs \in UNION { [1..n -> Refs] : n \in 1..MaxRows } :
        \A i, j \in DOMAIN refs : i < j => refs[i] < refs[j] }

ColsLists(f) ==
    {NoCols, [is_none |-> FALSE, list |-> f.vnames]}
    \cup { [is_none |-> FALSE, list |-> <<c>>] : c \in Keys(f) }

Orders == {"asc", "desc"}

\* b is what back returned
BackReturn(cols, inplace, silent_failure, b) ==
    /\ rf' = IF b.exc = "none" THEN b.res ELSE rf
    /\ self_rf' = b.self
    /\ ret' = [op |-> "back", cols |-> cols, inplace |-> inplace,
               silent_failure |-> silent_failure, exc |-> b.exc]

Back(cols, inplace, silent_failure, order) ==
    /\ nbacks < MaxBacks
    /\ nbacks' = nbacks + 1
    /\ BackReturn(cols, inplace, silent_failure,
                  back(rf, prov_df, cols, inplace, silent_failure, order, nbacks + 1))
    /\ UNCHANGED <<prov_df, env, svars_but_ret, cvars>>

\* silent_failure is not read when cols is None, and no set is listed
\* when cols is given; the program expands the columns it names in place
DoBack ==
    \E cols \in ColsLists(rf) : \E inplace \in (IF cols.is_none THEN BOOLEAN ELSE {TRUE}) :
        \E silent_failure \in (IF cols.is_none THEN {FALSE} ELSE BOOLEAN) :
            \E order \in (IF cols.is_none THEN Orders ELSE {"asc"}) :
                Back(cols, inplace, silent_failure, order)

NextRefFunctor == DoBack

\* the refs of S and the refs they were computed from
History(prov, S) ==
    LET F[k \in 0..MaxRef] ==
            IF k = 0 THEN S
            ELSE F[k - 1] \cup UNION { { prov[r].inputs[i] : i \in DOMAIN prov[r].inputs } : r \in F[k - 1] }
    IN F[MaxRef]

\* back reads the provenance of the functor's refs and of what they were
\* computed from: the table has no other rows
InitRefFunctor ==
    /\ InitVars(StorageInit)
    /\ Config = [autocommit |-> TRUE, evict_on_commit |-> FALSE]
    /\ prov_df \in ProvTables
    /\ \E refs \in RefLists :
          /\ rf = from_refs(refs)
          /\ \A r \in Refs \ History(prov_df, { refs[i] : i \in DOMAIN refs }) :
                prov_df[r] = NoCreator
    /\ self_rf = rf
    /\ nbacks = 0

SpecRefFunctor == InitRefFunctor /\ [][NextRefFunctor]_vars

\* back with silent_failure=False, in place and on a copy
DoBackStrict ==
    \E cols \in ColsLists(rf) : \E inplace \in BOOLEAN : Back(cols, inplace, FALSE, "asc")

NextBackStrict == DoBackStrict

SpecBackStrict == InitRefFunctor /\ [][NextBackStrict]_vars

----------------------------------------------------------------------------
(* The program makes a functor with from_refs or from_op and calls back,   *)
(* rename, copy and boolean masking on it, going on with the functor the   *)
(* method returned                                                         *)

Rows(f) == IF f.vnames = << >> THEN 0 ELSE Len(col_refs(f, f.vnames[1]))

Masks(f) == [1..Rows(f) -> BOOLEAN]

\* the dicts given to rename: the first column renamed to a new name or to
\* the name of the last column, a missing column renamed, and the first
\* and the last column renamed to one new name
RenameLists(f) ==
    { << <<old_name, new_name>> >> : old_name \in { f.vnames[1], <<"q">> },
                                     new_name \in { f.vnames[Len(f.vnames)], <<"z">> } }
    \cup { c \in { << <<f.vnames[1], <<"z">>>>, <<f.vnames[Len(f.vnames)], <<"z">>>> >> } :
                c[1][1] # c[2][1] }

Mask(m) ==
    /\ nbacks < MaxBacks
    /\ nbacks' = nbacks + 1
    /\ rf' = mask(rf, m, nbacks + 1)
    /\ self_rf' = rf
    /\ ret' = [op |-> "mask", mask |-> m]
    /\ UNCHANGED <<prov_df, env, svars_but_ret, cvars>>

\* r is what rename returned
RenameReturn(columns, inplace, r) ==
    /\ rf' = IF r.exc = "none" THEN r.res ELSE rf
    /\ self_rf' = r.self
    /\ ret' = [op |-> "rename", columns |-> columns, inplace |-> inplace, exc |-> r.exc]

Rename(columns, inplace) ==
    /\ nbacks < MaxBacks
    /\ nbacks' = nbacks + 1
    /\ RenameReturn(columns, inplace, rename(rf, columns, inplace, nbacks + 1))
    /\ UNCHANGED <<prov_df, env, svars_but_ret, cvars>>

Copy ==
    /\ nbacks < MaxBacks
    /\ nbacks' = nbacks + 1
    /\ rf' = copy(rf, nbacks + 1)
    /\ self_rf' = rf
    /\ ret' = [op |-> "copy"]
    /\ UNCHANGED <<prov_df, env, svars_but_ret, cvars>>

DoMask == \E m \in Masks(rf) : Mask(m)

DoRename == \E columns \in RenameLists(rf) : \E inplace \in BOOLEAN : Rename(columns, inplace)

NextFunctor == DoBack \/ DoMask \/ DoRename \/ Copy

TableOps == {"inc", "add"}

\* the functor is made by from_refs or by from_op
InitFunctor ==
    /\ InitVars(StorageInit)
    /\ Config = [autocommit |-> TRUE, evict_on_commit |-> FALSE]
    /\ prov_df \in ProvTables
    /\ \/ \E refs \in RefLists :
             /\ rf = from_refs(refs)
             /\ \A r \in Refs \ History(prov_df, { refs[i] : i \in DOMAIN refs }) :
                   prov_df[r] = NoCreator
       \/ \E op \in TableOps :
             /\ rf = from_op(op, prov_df)
             /\ \A r \in Refs \ History(prov_df, { r \in Refs : prov_df[r].op = op }) :
                   prov_df[r] = NoCreator
    /\ self_rf = rf
    /\ nbacks = 0

SpecFunctor == InitFunctor /\ [][NextFunctor]_vars

\* the functor is made by from_refs or from_op and the program calls back
\* and boolean masking only; back skips the columns it cannot expand, and
\* works on a copy unless it expands every column
DoBackSilent ==
    \E cols \in ColsLists(rf) : \E inplace \in (IF cols.is_none THEN BOOLEAN ELSE {FALSE}) :
        Back(cols, inplace, ~cols.is_none, "asc")

NextFunctorMask == DoBackSilent \/ DoMask

SpecFunctorMask == InitFunctor /\ [][NextFunctorMask]_vars

\* the functor is made by from_op over a table holding the calls of the op
\* and the history of their inputs
InitFromOp ==
    /\ InitVars(StorageInit)
    /\ Config = [autocommit |-> TRUE, evict_on_commit |-> FALSE]
    /\ prov_df \in ProvTables
    /\ \E op \in TableOps :
          /\ rf = from_op(op, prov_df)
          /\ \A r \in Refs \ History(prov_df, { r \in Refs : prov_df[r].op = op }) :
                prov_df[r] = NoCreator
    /\ self_rf = rf
    /\ nbacks = 0

NextFunctorCopy == DoBackSilent \/ DoMask \/ DoRename \/ Copy

SpecFunctorCopy == InitFromOp /\ [][NextFunctorCopy]_vars

----------------------------------------------------------------------------
(* Properties *)

IsCallRun == ret.op = "call_run"

ContentUid(v) == get_content_hash(<<wrap(v).obj>>)

IsOutput(v) == IsRef(v) /\ v \in known.refs

\* C2: the call uid depends only on internal input name -> content uid and
\* on the versioned internal name: two call_run invocations of the same op
\* whose inputs are outputs of two different calls with equal content uids
\* got the same call uid.
C2_ContentIdentity ==
    \A k1, k2 \in DOMAIN runs :
        ( /\ k1[1] = "sum" /\ k2[1] = "sum"
          /\ IsOutput(k1[2].x) /\ IsOutput(k2[2].x)
          /\ k1[2].x.uid # k2[2].x.uid
          /\ ContentUid(k1[2].x) = ContentUid(k2[2].x) )
        => runs[k1].uid = runs[k2].uid

DefaultUid == Sig("sum_d").new_input_defaults_uids["i_d"]

\* C3: for the op that gained input d with a recorded default uid, call_run
\* with d bound to the default computes the call uid computed for the same
\* other inputs before d was added, and is a hit when that call exists;
\* with d bound to another value the call uid differs.
C3_DefaultKeepsIdentity ==
    /\ \A k1, k2 \in DOMAIN runs :
         (k1[1] = "sum" /\ k2[1] = "sum_d" /\ wrap(k1[2].x).uid = wrap(k2[2].x).uid)
         => (runs[k1].uid = runs[k2].uid <=> wrap(k2[2].d).uid = DefaultUid)
    /\ (IsCallRun /\ ret.key[1] = "sum_d" /\ wrap(ret.key[2].d).uid = DefaultUid
          /\ \E k1 \in DOMAIN runs : k1[1] = "sum" /\ wrap(k1[2].x).uid = wrap(ret.key[2].x).uid)
       => ~ret.executed

\* the call made before d was added is hit by a call that binds d to the default
C3_Witness ==
    /\ IsCallRun /\ ret.key[1] = "sum_d" /\ ~ret.again /\ ~ret.executed
    /\ wrap(ret.key[2].d).uid = DefaultUid
    /\ \E k1 \in DOMAIN runs : k1[1] = "sum" /\ runs[k1].uid = ret.uid
    /\ \E k2 \in DOMAIN runs : k2[1] = "sum_d" /\ wrap(k2[2].d).uid # DefaultUid

\* C4: a UI rename of an input does not change call identity: call_run on
\* the same value under the UI name x of the one map and under the UI name y
\* of the other, both sent to the same internal name, computes the same uid.
C4_RenameKeepsIdentity ==
    \A k1, k2 \in DOMAIN runs :
        (k1[1] = "sum" /\ k2[1] = "sum_renamed" /\ k1[2].x = k2[2].y)
        => runs[k1].uid = runs[k2].uid

\* the same value was passed under both UI names, and the later call was a hit
C4_Witness ==
    /\ IsCallRun /\ ret.key[1] = "sum_renamed" /\ ~ret.again /\ ~ret.executed
    /\ \E k1 \in DOMAIN runs : k1[1] = "sum" /\ k1[2].x = ret.key[2].y

\* C5: a key is in the dirty set of obj_cache or call_cache if and only if
\* the entry is in that cache and not in the relational store.
C5_DirtyIffUnsaved ==
    /\ storage.obj_cache.dirty =
         { k \in DOMAIN storage.obj_cache.data : k \notin DOMAIN storage.vrefs }
    /\ storage.call_cache.dirty =
         { k \in DOMAIN storage.call_cache.data : k \notin DOMAIN storage.memo }

RelTables(st) == <<st.vrefs, st.memo, st.provenance, st.event_log>>

\* C6: commit is atomic on the relational store: a commit that raises
\* leaves every table of the relational store as it was.
C6_CommitAtomic ==
    [][ (ret'.op \in {"commit", "commit_calls"} /\ ret'.exc # "none")
        => RelTables(storage') = RelTables(storage) ]_vars

\* C7: referential closure: every input and output uid of every persisted
\* call row is in the value table.
C7_ReferentialClosure ==
    \A u \in DOMAIN storage.memo :
        /\ \A k \in DOMAIN storage.memo[u].inputs : storage.memo[u].inputs[k] \in DOMAIN storage.vrefs
        /\ \A i \in DOMAIN storage.memo[u].outputs : storage.memo[u].outputs[i] \in DOMAIN storage.vrefs

\* a commit failed after the value rows and before the call rows, next to a
\* persisted call that takes the output of another call as its input
C7_Witness ==
    /\ ret.op \in {"commit", "commit_calls"} /\ ret.exc = "upsert_calls"
    /\ \E u \in DOMAIN storage.memo : Len(storage.memo[u].inputs["x"]) = 3
    /\ \E k \in DOMAIN storage.vrefs :
         \A u \in DOMAIN storage.memo :
            /\ \A i \in DOMAIN storage.memo[u].inputs : storage.memo[u].inputs[i] # k
            /\ \A i \in DOMAIN storage.memo[u].outputs : storage.memo[u].outputs[i] # k

IsExit == ret.op = "exit"

\* C8: __exit__ restores before it raises and swallows nothing: after every
\* __exit__, whether its try block (commit, sync_to_remote, batched
\* execution) or the with-body raised or not, the entry snapshot was popped
\* and every key of it has its snapshot value again; the exception raised is
\* the one of the exit path, else the one of the body, and there is none
\* only when neither raised.
C8_ExitRestoresThenRaises ==
    IsExit =>
       /\ Len(ctx[ret.ctx].updates_stack) = ret.depth - 1
       /\ \A k \in DOMAIN ret.snapshot : ctx[ret.ctx][k] = ret.snapshot[k]
       /\ ret.exc = IF ret.path_exc # "none" THEN ret.path_exc
                    ELSE IF ret.body_exc THEN "body" ELSE "none"
       /\ (ret.exc = "none") <=> (ret.path_exc = "none" /\ ~ret.body_exc)

\* the batched execution raised in the exit of a batch context whose body
\* raised as well: the storage is back to its snapshot value and the
\* exception of the exit path reached the caller
C8_Witness ==
    /\ IsExit /\ ret.mode = "batch" /\ ret.path_exc = "compute" /\ ret.body_exc
    /\ ret.exc = "compute"
    /\ ret.snapshot.storage = "None" /\ ctx[ret.ctx].storage = "None"
    /\ ctx[ret.ctx].updates_stack = << >>

\* the number of entered with-statements of the context c
Depth(c) == Cardinality({ i \in DOMAIN entered : entered[i].ctx = c })

\* C9: nested entries are LIFO with snapshot and restore: each __exit__
\* leaves storage, mode and lazy as they were immediately before the
\* matching __enter__, the snapshot stack of a context is as deep as the
\* with-statements entered on it, and when none is entered every context
\* has the values from before its first entry and an empty stack.
C9_NestedLIFO ==
    /\ IsExit => State3(ctx[ret.ctx]) = ret.before
    /\ \A c \in Ctxs : Len(ctx[c].updates_stack) = Depth(c)
    /\ entered = << >> =>
          \A c \in Ctxs : State3(ctx[c]) = State3(CtxInit[c]) /\ ctx[c].updates_stack = << >>

\* the inner of two nested entries of run, which had set the mode to
\* query, was exited: the mode is run again and the outer entry remains
C9_Witness ==
    /\ IsExit /\ ret.ctx = "run" /\ ret.depth = 2 /\ ret.mode = "query"
    /\ ctx["run"].mode = "run" /\ ctx["run"].storage = "S"
    /\ Len(entered) = 1

\* C10: the global current context follows the nesting: while
\* with-statements are entered it is the context of the innermost one
\* entered and not yet exited (so it is not None), and after the __exit__
\* of the outermost one it is None.
C10_CurrentFollowsNesting ==
    /\ entered # << >> => current = entered[Len(entered)].ctx
    /\ (IsExit /\ entered = << >>) => current = "None"

IsSyncTo == ret.op = "sync_to_remote"

\* C14: sync_to_remote clears the event log only after the remote accepted
\* the bundle.  With a remote: when bundle_to_remote or save_event_log_entry
\* raises, the event log and the remote log are as before; the event log
\* changes only in a step that appended the bundle of the store to the
\* remote log; after a normal return the event log is empty.  With no remote
\* the event log is cleared and nothing is sent.
C14_ClearAfterSend ==
    [][ ret'.op = "sync_to_remote" =>
          IF storage.root = "remote"
          THEN /\ ret'.exc \in {"bundle_to_remote", "save_event_log_entry"} =>
                     /\ storage'.event_log = storage.event_log
                     /\ storage'.remote_log = storage.remote_log
               /\ storage'.event_log # storage.event_log =>
                     storage'.remote_log = Append(storage.remote_log, bundle_to_remote(storage))
               /\ ret'.exc = "none" =>
                     /\ storage'.event_log = {}
                     /\ storage'.remote_log = Append(storage.remote_log, bundle_to_remote(storage))
          ELSE ret'.exc = "none" =>
                     /\ storage'.event_log = {}
                     /\ storage'.remote_log = storage.remote_log
      ]_vars

\* save_event_log_entry raised in a sync_to_remote of a store with logged
\* calls: the entries are still in the event log and nothing reached the remote
C14_Witness ==
    /\ IsSyncTo /\ ret.exc = "save_event_log_entry"
    /\ storage.root = "remote" /\ storage.remote_log = << >>
    /\ \E e \in storage.event_log : e.table = "sum_0"

\* C15: sync_from_remote advances the cursor last.  With a remote: when it
\* raises (pulling the signatures, requesting the entries or applying them)
\* last_timestamp is unchanged; after a normal return the tables are those
\* after apply_from_remote of the entries since the old last_timestamp and
\* last_timestamp is the timestamp the remote returned.  With no remote the
\* storage is unchanged.
C15_CursorAdvancesLast ==
    [][ ret'.op = "sync_from_remote" =>
          IF storage.root = "remote"
          THEN /\ ret'.exc # "none" => storage'.last_timestamp = storage.last_timestamp
               /\ ret'.exc = "none" =>
                     /\ storage'.last_timestamp =
                          get_log_entries_since(storage, storage.last_timestamp).timestamp
                     /\ RelTables(storage') =
                          RelTables(apply_changesets(storage,
                             get_log_entries_since(storage, storage.last_timestamp).entries))
          ELSE storage' = storage /\ ret'.exc = "none"
      ]_vars

\* a sync_from_remote pulled the rows of a call of the other process and
\* set the cursor to the clock of the remote
C15_Witness ==
    /\ ret.op = "sync_from_remote" /\ ret.exc = "none"
    /\ storage.last_timestamp = Len(storage.remote_log) /\ storage.last_timestamp >= 1
    /\ ncalls = 0 /\ DOMAIN storage.memo # {}

Dedup(changes) ==
    IF Len(changes) = 2 /\ changes[1] = changes[2] THEN << changes[1] >> ELSE changes

\* C16: apply_from_remote is idempotent: applying the list once more
\* returns normally and leaves every table as it is, and a list that
\* repeats an entry leaves the tables as the list without the repetition does.
C16_ApplyIdempotent ==
    [][ (ret'.op = "apply_from_remote" /\ ret'.exc = "none") =>
          /\ apply_from_remote(storage', ret'.changes, "none").exc = "none"
          /\ RelTables(apply_from_remote(storage', ret'.changes, "none").st) = RelTables(storage')
          /\ RelTables(storage') =
                RelTables(apply_from_remote(storage, Dedup(ret'.changes), "none").st)
      ]_vars

\* a list that repeats an entry of the other process was applied to a store
\* that did not have its rows
C16_Witness ==
    /\ ret.op = "apply_from_remote" /\ ret.exc = "none"
    /\ Len(ret.changes) = 2 /\ ret.changes[1] = ret.changes[2]
    /\ ncalls = 0 /\ storage.last_timestamp = 0 /\ DOMAIN storage.memo # {}

\* C17: bundle/apply round trip: apply_from_remote([bundle_to_remote()]) on
\* the store the bundle was taken from leaves every table unchanged.
C17_BundleApplyRoundTrip ==
    [][ ret'.op = "bundle_apply" =>
          /\ ret'.exc = "none"
          /\ RelTables(storage') = RelTables(storage)
      ]_vars

\* the round trip was made with a bundle that holds a call row and values
C17_Witness ==
    /\ ret.op = "bundle_apply"
    /\ DOMAIN ret.bundle = {VrefTable, "i_sum_0"}
    /\ DOMAIN deserialize(ret.bundle["i_sum_0"]) # {}

\* C18: calls received from the remote are replayed and not echoed:
\* sync_from_remote adds nothing to the event log, and a call_run of an op
\* and inputs whose call row came from the other process, and which this
\* process never executed, is a hit that returns the outputs of the other
\* process, logs nothing, and leaves an empty bundle when the event log
\* was empty.
C18_RemoteCallsReplayed ==
    [][ /\ ret'.op = "sync_from_remote" => storage'.event_log = storage.event_log
        /\ \A p \in Payloads :
              ( /\ ret'.op = "call_run" /\ ret'.key = <<"sum", [x |-> Raw(p)]>>
                /\ ForeignCall(p).uid \in DOMAIN storage.memo
                /\ ForeignCall(p).uid \notin DOMAIN execs )
              => /\ ~ret'.executed
                 /\ ret'.uid = ForeignCall(p).uid
                 /\ ret'.outs = [i \in DOMAIN ForeignCall(p).outputs |-> ForeignCall(p).outputs[i].uid]
                 /\ storage'.event_log = storage.event_log
                 /\ storage.event_log = {} => bundle_to_remote(storage') = EmptyFcn
      ]_vars

\* a hit on a call that only the other process executed, on a store whose
\* bundle is empty
C18_Witness ==
    /\ IsCallRun /\ ~ret.executed /\ execs = EmptyFcn
    /\ storage.last_timestamp >= 1
    /\ bundle_to_remote(storage) = EmptyFcn

\* C11: entering a context pulls from the remote exactly when its mode is
\* run: an __enter__ that returns in query or batch mode leaves the
\* storage as it is, and one in run mode leaves it as sync_from_remote does.
C11_SyncOnRunEntryOnly ==
    [][ (ret'.op = "enter" /\ ret'.exc = "none") =>
          /\ ctx'[ret'.ctx].mode # "run" => storage' = storage
          /\ (ctx'[ret'.ctx].mode = "run" /\ ctx'[ret'.ctx].storage # "None") =>
                storage' = sync_from_remote(storage, "none").st
      ]_vars

\* the uids of the call rows in the entries of the remote log
SentCallUids ==
    UNION { DOMAIN deserialize(storage.remote_log[i]["i_sum_0"]) :
              i \in { j \in DOMAIN storage.remote_log : "i_sum_0" \in DOMAIN storage.remote_log[j] } }

\* C12: on the exit of a run context with autocommit, commit happens before
\* sync_to_remote: after a normal exit with a remote configured every call
\* that call_run created is in the relational store and in a bundle that
\* was saved at the remote, and the event log is empty.
C12_CommitBeforeSync ==
    ( /\ IsExit /\ ret.mode = "run" /\ ret.exc = "none"
      /\ Config.autocommit /\ storage.root = "remote" )
    => /\ \A u \in DOMAIN execs : u \in DOMAIN storage.memo /\ u \in SentCallUids
       /\ storage.event_log = {}

\* C13: autocommit governs committing on exit: with autocommit false the
\* exit of a context in any mode leaves the tables of the relational store
\* and the dirty sets as they were; with autocommit true a normal exit of a
\* run context leaves no dirty entry.
C13_AutocommitGovernsExit ==
    [][ ret'.op = "exit" =>
          /\ ~Config.autocommit =>
                /\ RelTables(storage') = RelTables(storage)
                /\ storage'.obj_cache.dirty = storage.obj_cache.dirty
                /\ storage'.call_cache.dirty = storage.call_cache.dirty
          /\ (Config.autocommit /\ ret'.mode = "run" /\ ret'.exc = "none") =>
                /\ storage'.obj_cache.dirty = {}
                /\ storage'.call_cache.dirty = {}
      ]_vars

\* C19: execute_query commits before it queries: after an execute_query
\* with a query, no call is left dirty outside the relational store and
\* the rows selected include the output of every call made so far.
C19_QueryAfterCommit ==
    (ret.op = "execute_query" /\ ret.queries # << >>) =>
       /\ storage.call_cache.dirty \subseteq DOMAIN storage.memo
       /\ \A call \in known.calls : call.outputs[1].uid \in ret.df

\* the column col of f has its creator CallNode and that call's input
\* columns in the graph
Expanded(f, prov, col) ==
    \E cn \in DOMAIN f.call_nodes :
        /\ f.call_nodes[cn].call_uids = col_uids(f, prov, col)
        /\ col_to_output_name(f, prov, col) \in DOMAIN f.call_nodes[cn].outputs
        /\ f.call_nodes[cn].outputs[col_to_output_name(f, prov, col)] = f.node[col]
        /\ \A k \in DOMAIN input_types(f.call_nodes[cn].func_op) :
              /\ input_types(f.call_nodes[cn].func_op)[k] \in DOMAIN f.call_nodes[cn].inputs
              /\ \E v \in Keys(f) :
                    f.node[v] = f.call_nodes[cn].inputs[input_types(f.call_nodes[cn].func_op)[k]]
              /\ f.refs[f.call_nodes[cn].inputs[input_types(f.call_nodes[cn].func_op)[k]]] =
                    [i \in DOMAIN col_refs(f, col) |-> prov[col_refs(f, col)[i]].inputs[k]]

\* C20: back(cols=None) expands to a fixpoint, in place or not: in the
\* functor it returned every column whose values all have a creator, of
\* one op and under one output name, has its creator CallNode and the
\* input columns of that call, and one more back(cols=None) adds nothing.
C20_BackFixpoint ==
    (ret.op = "back" /\ ret.cols.is_none /\ ret.exc = "none") =>
       /\ \A col \in Keys(rf) : filtered(rf, prov_df, col) => Expanded(rf, prov_df, col)
       /\ \A inplace \in BOOLEAN : \A order \in Orders :
             copy(back(rf, prov_df, NoCols, inplace, FALSE, order, nbacks + 1).res, 0) = copy(rf, 0)

\* a value of the column has no creator call
NoCreatorIn(f, prov, col) == \E i \in DOMAIN col_refs(f, col) : prov[col_refs(f, col)[i]] = NoCreator

\* the creators of the column's values belong to more than one op
SeveralOps(f, prov, col) ==
    \E i, j \in DOMAIN col_refs(f, col) : prov[col_refs(f, col)[i]].op # prov[col_refs(f, col)[j]].op

\* the column's values appear under more than one output name
SeveralOutputNames(f, prov, col) ==
    \E i, j \in DOMAIN col_refs(f, col) : prov[col_refs(f, col)[i]].out # prov[col_refs(f, col)[j]].out

Ambiguous(f, prov, col) ==
    NoCreatorIn(f, prov, col) \/ SeveralOps(f, prov, col) \/ SeveralOutputNames(f, prov, col)

\* col is an output of a CallNode of g that it was not an output of in f
NewlyLinked(f, g, col) ==
    \E cn \in DOMAIN g.call_nodes : \E o \in DOMAIN g.call_nodes[cn].outputs :
        /\ g.call_nodes[cn].outputs[o] = g.node[col]
        /\ ~(/\ cn \in DOMAIN f.call_nodes
             /\ o \in DOMAIN f.call_nodes[cn].outputs
             /\ f.call_nodes[cn].outputs[o] = f.node[col])

C22_CallNodeIdentity ==
    /\ \A cn1, cn2 \in DOMAIN rf.call_nodes :
          rf.call_nodes[cn1].call_uids = rf.call_nodes[cn2].call_uids => cn1 = cn2
    /\ (ret.op = "back" /\ ~ret.cols.is_none /\ ret.exc = "none") =>
          \A i \in DOMAIN ret.cols.list :
             ~Ambiguous(rf, prov_df, ret.cols.list[i]) =>
                \E cn \in DOMAIN rf.call_nodes :
                   rf.call_nodes[cn].call_uids = col_uids(rf, prov_df, ret.cols.list[i])

\* every ValNode and every CallNode of f has the same number of rows, and
\* the call at row i of a CallNode has as inputs and outputs the values at
\* row i of its input and output ValNodes
Aligned(f, prov) ==
    /\ \A v \in DOMAIN f.refs : Len(f.refs[v]) = Rows(f)
    /\ \A cn \in DOMAIN f.call_nodes :
          /\ Len(f.call_nodes[cn].call_uids) = Rows(f)
          /\ \A i \in DOMAIN f.call_nodes[cn].call_uids :
                /\ f.call_nodes[cn].call_uids[i][1] = f.call_nodes[cn].func_op
                /\ \A k \in DOMAIN input_types(f.call_nodes[cn].func_op) :
                      input_types(f.call_nodes[cn].func_op)[k] \in DOMAIN f.call_nodes[cn].inputs =>
                         f.refs[f.call_nodes[cn].inputs[input_types(f.call_nodes[cn].func_op)[k]]][i]
                            = f.call_nodes[cn].call_uids[i][2][k]
                /\ \A o \in DOMAIN f.call_nodes[cn].outputs :
                      prov[f.refs[f.call_nodes[cn].outputs[o]][i]] =
                         [op |-> f.call_nodes[cn].call_uids[i][1],
                          inputs |-> f.call_nodes[cn].call_uids[i][2],
                          out |-> o]

\* C23: every functor made from from_refs or from_op by back and boolean
\* masking is aligned row by row, and masking the functor once more with
\* any mask keeps in every node the rows at the same positions.
C23_PositionalAlignment ==
    /\ Aligned(rf, prov_df)
    /\ \A m \in Masks(rf) :
          /\ Aligned(mask(rf, m, nbacks + 1), prov_df)
          /\ \A v \in DOMAIN rf.refs :
                mask(rf, m, nbacks + 1).refs[v] = mask_list(rf.refs[v], m)

\* a functor with a CallNode and two rows was masked down to one row
C23_Witness ==
    /\ ret.op = "mask" /\ ret.mask \in {<<TRUE, FALSE>>, <<FALSE, TRUE>>}
    /\ rf.call_nodes # EmptyFcn
    /\ Rows(rf) = 1
    /\ \E cn \in DOMAIN rf.call_nodes : DOMAIN rf.call_nodes[cn].inputs # {}

\* some item of columns has a source name that is no column of f or a
\* target name that is a column of f
BadRename(f, columns) ==
    \E k \in DOMAIN columns : columns[k][1] \notin Keys(f) \/ columns[k][2] \in Keys(f)

\* C24: rename raises when a source name is not a column or a target name
\* is an existing column name, and a rename that raised, in place or not,
\* left the name -> node mapping of the functor as it was.
C24_RenameFailsAtomically ==
    [][(ret'.op = "rename" /\ nbacks' = nbacks + 1) =>
          /\ BadRename(rf, ret'.columns) => ret'.exc = "ValueError"
          /\ ret'.exc = "ValueError" =>
                /\ self_rf'.node = rf.node /\ self_rf'.vnames = rf.vnames
                /\ self_rf' = rf
                /\ rf' = rf]_vars

\* an in-place rename of a column to the name of another column raised
C24_Witness ==
    /\ ret.op = "rename" /\ ret.inplace /\ ret.exc = "ValueError"
    /\ Len(ret.columns) = 1
    /\ ret.columns[1][1] \in Keys(rf) /\ ret.columns[1][2] \in Keys(rf)
    /\ ret.columns[1][1] # ret.columns[1][2]

\* g has the column names and the call names of f, each node of g is not
\* the object of f (the objects of a functor carry its gen), and has the
\* refs or the call uids of the node of f with its name, and the nodes of
\* g are linked as the nodes of f with their names are
SameStructure(g, f) ==
    /\ g.vnames = f.vnames
    /\ DOMAIN g.call_nodes = DOMAIN f.call_nodes
    /\ g.gen # f.gen
    /\ \A v \in Keys(f) : col_refs(g, v) = col_refs(f, v)
    /\ \A cn \in DOMAIN f.call_nodes :
          /\ g.call_nodes[cn].call_uids = f.call_nodes[cn].call_uids
          /\ g.call_nodes[cn].func_op = f.call_nodes[cn].func_op
          /\ \A v \in Keys(f) :
                /\ { n \in DOMAIN g.call_nodes[cn].inputs : g.call_nodes[cn].inputs[n] = g.node[v] }
                      = { n \in DOMAIN f.call_nodes[cn].inputs : f.call_nodes[cn].inputs[n] = f.node[v] }
                /\ { o \in DOMAIN g.call_nodes[cn].outputs : g.call_nodes[cn].outputs[o] = g.node[v] }
                      = { o \in DOMAIN f.call_nodes[cn].outputs : f.call_nodes[cn].outputs[o] = f.node[v] }
          /\ \A n \in DOMAIN g.call_nodes[cn].inputs :
                \E v \in Keys(g) : g.node[v] = g.call_nodes[cn].inputs[n]
          /\ \A o \in DOMAIN g.call_nodes[cn].outputs :
                \E v \in Keys(g) : g.node[v] = g.call_nodes[cn].outputs[o]

CallRows(st) ==
    { CallRow(st.call_cache.data[u]) : u \in DOMAIN st.call_cache.data }
    \cup { st.memo[u] : u \in DOMAIN st.memo }

\* the pairs (call uid, value uid) of the output edges and (value uid, call
\* uid) of the input edges, read from the calls and from the provenance
\* table
OutputEdges(st) ==
    UNION { { <<c.uid, c.outputs[i]>> : i \in DOMAIN c.outputs } : c \in CallRows(st) }
    \cup { <<r.call_uid, r.vref_uid>> : r \in { q \in st.provenance : q.direction = "output" } }

InputEdges(st) ==
    UNION { { <<c.inputs[k], c.uid>> : k \in DOMAIN c.inputs } : c \in CallRows(st) }
    \cup { <<r.vref_uid, r.call_uid>> : r \in { q \in st.provenance : q.direction = "input" } }

\* topological sort of the graph with the edges E: the edges that leave a
\* node without an incoming edge are removed until no edge is left
RECURSIVE TopologicalSort(_)
TopologicalSort(E) ==
    IF E = {} THEN TRUE
    ELSE IF { e \in E : ~\E g \in E : g[2] = e[1] } = {} THEN FALSE
    ELSE TopologicalSort({ e \in E : \E g \in E : g[2] = e[1] })

\* C26: each value uid is the output of at most one call, and the graph of
\* the input edges value -> call and the output edges call -> value has no
\* cycle.
C26_ProvenanceAcyclic ==
    /\ \A e, g \in OutputEdges(storage) : e[2] = g[2] => e[1] = g[1]
    /\ TopologicalSort(OutputEdges(storage) \cup InputEdges(storage))

\* three calls in a chain were committed: the output of each call but the
\* last is the input of the next
C26_Witness ==
    /\ ret.op = "commit" /\ ret.exc = "none"
    /\ \E e1, e2 \in OutputEdges(storage) : \E g1, g2 \in InputEdges(storage) :
          /\ e1[2] = g1[1] /\ g1[2] = e2[1] /\ e2[2] = g2[1]
          /\ \A u \in {e1[1], e2[1], g2[2]} : u \in DOMAIN storage.memo

\* the context of the innermost with-statement the program is in
Innermost == ctx[entered[Len(entered)].ctx]

\* the call uid and the output uids call_run gives the call struct cs
StructCallUid(cs) == call_uid_of(cs.func_op, cs.inputs)

StructOutputs(cs) ==
    wrap_outputs(compute(cs.func_op, [k \in DOMAIN cs.inputs |-> cs.inputs[k].obj]),
                 StructCallUid(cs))

\* C27: a call of a decorated function inside a batch context does not
\* execute the user function and records one call struct; after the exit
\* of the batch context every recorded call struct has its call committed,
\* once, and its outputs in memory with the uid and the payload of the
\* real outputs.
C27_BatchDefersExecution ==
    [][/\ (nfcalls' = nfcalls + 1 /\ entered # << >> /\ Innermost.mode = "batch"
           /\ Innermost.storage # "None") =>
             /\ execs' = execs
             /\ storage' = storage
             /\ ret'.op = "fcall" /\ ret'.how = "batch"
             /\ Len(ctx'[entered[Len(entered)].ctx].call_structs) = Len(Innermost.call_structs) + 1
       /\ (ret'.op = "exit" /\ ret'.mode = "batch" /\ ret'.exc = "none" /\ entered' # entered) =>
             \A i \in DOMAIN ctx[ret'.ctx].call_structs :
                /\ StructCallUid(ctx[ret'.ctx].call_structs[i]) \in DOMAIN storage'.memo
                /\ \A o \in DOMAIN StructOutputs(ctx[ret'.ctx].call_structs[i]) :
                      /\ kv_exists(storage'.obj_cache, StructOutputs(ctx[ret'.ctx].call_structs[i])[o].uid)
                      /\ storage'.obj_cache.data[StructOutputs(ctx[ret'.ctx].call_structs[i])[o].uid]
                            = StructOutputs(ctx[ret'.ctx].call_structs[i])[o]
                      /\ StructOutputs(ctx[ret'.ctx].call_structs[i])[o].uid \in DOMAIN storage'.vrefs]_vars

\* the calls whose user function was executed so far
ExecutedCalls == { call \in known.calls : call.uid \in DOMAIN execs }

\* the call and the values it references are in the caches and dirty
CachedDirty(st, call) ==
    /\ kv_exists(st.call_cache, call.uid) /\ call.uid \in st.call_cache.dirty
    /\ \A v \in CallRefs(call) :
          kv_exists(st.obj_cache, v.uid) /\ v.uid \in st.obj_cache.dirty

\* the relational store has the call and the values it references
Durable(st, call) ==
    /\ rel_call_exists(st, call.uid)
    /\ call_exists(st, call.uid)
    /\ \A v \in CallRefs(call) :
          v.uid \in DOMAIN st.vrefs /\ st.vrefs[v.uid] = v /\ obj_get(st, v.uid) = v

\* C28: after a call_run that executed the user function the call and its
\* input and output values are in the caches and dirty, and after the
\* next commit() the relational store answers call_exists and obj_get for
\* every call executed before it, also when the commit emptied the caches.
C28_MissDurableAtCommit ==
    [][/\ (ret'.op = "call_run" /\ ret'.executed /\ ncalls' = ncalls + 1) =>
             \A call \in known'.calls : call.uid = ret'.uid => CachedDirty(storage', call)
       /\ (ret'.op = "commit" /\ ret'.exc = "none") =>
             \A call \in ExecutedCalls : Durable(storage', call)]_vars

\* C29: commit(calls=L) leaves dirty every entry that was dirty and that it
\* did not write: no cached call or obj loses its dirty bit without being
\* in the relational store afterwards, so that a later commit() persists
\* what the commit of L left out.
C29_CommitCallsTouchesOnlyCalls ==
    [][(ret'.op = "commit_calls" /\ ret'.exc = "none") =>
          /\ \A u \in storage.call_cache.dirty :
                u \in storage'.call_cache.dirty \/ rel_call_exists(storage', u)
          /\ \A u \in storage.obj_cache.dirty :
                u \in storage'.obj_cache.dirty \/ u \in DOMAIN storage'.vrefs]_vars

\* C30: a call_run that found the call in the call cache or in the
\* relational store leaves the dirty sets of both caches as they were, and
\* the commit() that follows a hit on a storage without dirty entries
\* writes no row and appends nothing to the event log.
C30_HitWritesNothing ==
    [][/\ (ret'.op = "call_run" /\ ~ret'.executed /\ ncalls' = ncalls + 1) =>
             /\ storage'.obj_cache.dirty = storage.obj_cache.dirty
             /\ storage'.call_cache.dirty = storage.call_cache.dirty
       /\ (ret.op = "call_run" /\ ~ret.executed /\ ret'.op = "commit" /\ ret'.exc = "none"
           /\ storage.obj_cache.dirty = {} /\ storage.call_cache.dirty = {}) =>
             RelTables(storage') = RelTables(storage)]_vars

\* C31: no event-log entry is cleared without having been sent: every
\* entry that clear_event_log removes at the end of a sync_to_remote was in
\* the event log that the bundle of this sync_to_remote read, also when
\* another process committed to the shared store in between.
C31_NoEntryLostBetweenBundleAndClear ==
    (ret.op = "sync_to_remote" /\ ret.exc = "none" /\ "cleared" \in DOMAIN ret) =>
        \A e \in ret.cleared : e \in ret.sent \/ e \in storage.event_log

\* C32: an __enter__ that raised left GlobalContext.current, the snapshot
\* stack of the context and its storage, mode and lazy as they were.
C32_FailedEnterChangesNothing ==
    [][(ret'.op = "enter" /\ ret'.exc # "none" /\ nctx' = nctx + 1) =>
          /\ current' = current
          /\ ctx'[ret'.ctx].updates_stack = ctx[ret'.ctx].updates_stack
          /\ State3(ctx'[ret'.ctx]) = State3(ctx[ret'.ctx])]_vars

\* C33: after the exit of a batch context its list of recorded call
\* structs is empty, so that a later entry executes only the call structs
\* of its own with-body.
C33_BatchWorkEndsWithContext ==
    [][(ret'.op = "exit" /\ ret'.mode = "batch" /\ ret'.exc = "none" /\ entered' # entered) =>
          ctx'[ret'.ctx].call_structs = << >>]_vars

\* C34: a commit in which obj_sets or upsert_calls raised left the cached
\* entries and the dirty sets of both caches as they were, and a commit()
\* that returns has written every entry that was dirty before it, the
\* entries a failed commit left dirty among them.
C34_FailedCommitCanBeRetried ==
    [][/\ (ret'.op \in {"commit", "commit_calls"} /\ ret'.exc \in {"obj_sets", "upsert_calls"}) =>
             /\ storage'.obj_cache = storage.obj_cache
             /\ storage'.call_cache = storage.call_cache
       /\ (ret'.op = "commit" /\ ret'.exc = "none") =>
             /\ \A u \in storage.call_cache.dirty :
                   rel_call_exists(storage', u) /\ storage'.memo[u] = CallRow(storage.call_cache.data[u])
             /\ \A u \in storage.obj_cache.dirty :
                   u \in DOMAIN storage'.vrefs /\ storage'.vrefs[u] = storage.obj_cache.data[u]]_vars

\* a commit failed in upsert_calls after it wrote the values, and the call
\* and its values are still cached and dirty
C34_Witness ==
    /\ ret.op = "commit" /\ ret.exc = "upsert_calls"
    /\ storage.call_cache.dirty # {} /\ storage.obj_cache.dirty # {}
    /\ storage.call_cache.dirty \subseteq DOMAIN storage.call_cache.data
    /\ \A u \in storage.call_cache.dirty : ~rel_call_exists(storage, u)
    /\ \E u \in storage.obj_cache.dirty : u \in DOMAIN storage.vrefs

\* C35: a call_run whose user function raised added no call and no value
\* to the caches and left the dirty sets and the relational tables as they
\* were; the call is still unknown to the storage, and a call_run with the
\* same inputs that follows is a miss that executes the function.
C35_FailedComputeLeavesNoTrace ==
    [][/\ (ret'.op = "call_run" /\ "exc" \in DOMAIN ret' /\ ncalls' # ncalls) =>
             /\ storage' = storage
             /\ ~call_exists(storage', ret'.uid)
       /\ (/\ ret.op = "call_run" /\ "exc" \in DOMAIN ret
           /\ ret'.op = "call_run" /\ "executed" \in DOMAIN ret' /\ ret'.key = ret.key) =>
             /\ ret'.executed
             /\ ret'.uid = ret.uid
             /\ ret'.uid \in storage'.call_cache.dirty]_vars

\* the function raised for inputs whose values were not cached, while
\* another call is cached and dirty
C35_Witness ==
    /\ ret.op = "call_run" /\ "exc" \in DOMAIN ret
    /\ storage.call_cache.dirty # {}
    /\ \E k \in DOMAIN ret.key[2] : wrap(ret.key[2][k]).uid \notin DOMAIN storage.obj_cache.data

\* the columns of g that f does not have are ValNodes whose refs no column
\* of f and no other new column has
AddsNewRefs(f, g) ==
    \A v \in Keys(g) \ Keys(f) :
        \A w \in Keys(g) \ {v} : col_refs(g, w) # col_refs(g, v)

\* the loop of back(cols=None) with the rounds b stopped within MaxRounds
\* rounds, and every round it made after the first was asked for by a
\* round that added ValNodes with refs the graph did not have
Terminates(b) ==
    /\ b.done
    /\ Len(b.trace) <= MaxRounds + 1
    /\ \A k \in 1..(Len(b.trace) - 1) : AddsNewRefs(b.trace[k], b.trace[k + 1])
    /\ \A k \in 2..(Len(b.trace) - 1) : Keys(b.trace[k]) \ Keys(b.trace[k - 1]) # {}

\* asc and desc are the rounds of the call for the two listing orders of
\* a frontier, returned is what the call returned
TerminatesWith(asc, desc, exc, returned) ==
    /\ Terminates(asc)
    /\ Terminates(desc)
    /\ exc = "none" => returned \in {asc.trace[Len(asc.trace)], desc.trace[Len(desc.trace)]}

\* C36: every back(cols=None), in place or not and for both listing
\* orders of the frontier, ends after at most MaxRounds rounds, each round
\* but the last having added a ValNode whose refs the graph did not have;
\* the functor returned is the one of the last round.
C36_BackNoneTerminates ==
    [][(ret'.op = "back" /\ ret'.cols.is_none /\ nbacks' = nbacks + 1) =>
          \A res \in { IF ret'.inplace THEN rf ELSE copy(rf, nbacks') } :
             \A asc \in { back_trace(res, prov_df, ret'.inplace, "asc") } :
                \A desc \in { back_trace(res, prov_df, ret'.inplace, "desc") } :
                   TerminatesWith(asc, desc, ret'.exc, rf')]_vars

\* back(cols=None) without inplace made three rounds: the functor it was
\* called on has one column, the one returned has the column it was
\* computed from and the column that one was computed from
C36_Witness ==
    /\ ret.op = "back" /\ ret.cols.is_none /\ ~ret.inplace /\ ret.exc = "none"
    /\ Len(self_rf.vnames) = 1
    /\ Len(back_trace(copy(self_rf, nbacks), prov_df, FALSE, "asc").trace) = 4
    /\ Len(rf.vnames) >= 3

\* C37: after a back that raised, in place or not, the functor it was
\* called on and the functor the program holds are the functor of before
\* the call, with the same ValNodes, CallNodes and edges; and after every
\* back with inplace=False the functor it was called on is as before.
C37_BackFailsBeforeItChanges ==
    [][(ret'.op = "back" /\ nbacks' = nbacks + 1) =>
          /\ ret'.exc # "none" => (self_rf' = rf /\ rf' = rf)
          /\ ~ret'.inplace => self_rf' = rf]_vars

\* back in place raised for a list of columns of which one passes the
\* checks and has no creator CallNode in the graph yet
C37_Witness ==
    /\ ret.op = "back" /\ ret.exc = "ValueError" /\ ret.inplace /\ ~ret.silent_failure
    /\ \E i \in DOMAIN ret.cols.list :
          /\ filtered(rf, prov_df, ret.cols.list[i])
          /\ back_cols(rf, prov_df, <<ret.cols.list[i]>>, TRUE).rf # rf

\* C38: after every rename that returned, the functor returned has as
\* many columns as the functor it was called on and the same ValNodes,
\* each of them under exactly one name, also when the mapping sends two
\* old names to one new name.
C38_RenameKeepsColumns ==
    [][(ret'.op = "rename" /\ ret'.exc = "none" /\ nbacks' = nbacks + 1) =>
          /\ Len(rf'.vnames) = Len(rf.vnames)
          /\ Cardinality(Keys(rf')) = Cardinality(Keys(rf))
          /\ { rf'.node[v] : v \in Keys(rf') } = { rf.node[v] : v \in Keys(rf) }
          /\ \A v, w \in Keys(rf') : rf'.node[v] = rf'.node[w] => v = w]_vars

====
